---- MODULE Spec2Model ----
(***************************************************************************)
(* Supervisor (master process) / worker lifecycle of market_data_feeder:   *)
(* MasterProcess (master_process.cpp) together with the process table,     *)
(* control flags and message queue of IPCManager (ipc_manager.cpp) and the *)
(* parts of WorkerProcess (worker_process.cpp) the supervisor observes.    *)
(*                                                                         *)
(* The master is one sequential process; `pc` is its position.  Worker     *)
(* processes are OS processes that run concurrently with it: they exit,    *)
(* send messages and receive signals between any two master steps.         *)
(***************************************************************************)
EXTENDS Integers, Naturals, Sequences, FiniteSets, TLC

(* ------------------------------ bounds --------------------------------- *)
\* worker_count_ computed by MasterProcess::initialize
WorkerCount == 2
\* number of fork() calls that can succeed before the OS refuses (EAGAIN)
MaxPid == 3
\* capacity of the System V message queue, in messages
MaxQueue == 1
\* seconds by which time(nullptr) advances between two observations
TickStep == 60
\* number of times the clock advances
MaxTicks == 2
\* max_wait_time of gracefulShutdown, in loop iterations of one second
\* (30 in the source; the loop is the same for any positive value)
max_wait_time == 2
\* capacity of the message queue in the substrate specification (IpcSpec)
QueueCap == 3
\* number of messages sent in a behaviour of IpcSpec
MaxMsgs == 4
\* largest value of a statistics counter in a snapshot
MaxCount == 2
\* config.market_data.batch_size, in records (100 in the default
\* configuration; the comparison is the same for any positive value)
batch_size == 2
\* flush interval of the worker's main loop, in units of the steady clock
\* (process_interval milliseconds in the source)
flush_interval == 1
\* config.market_data.max_reconnect_attempts (10 in the default configuration)
max_reconnect_attempts == 2
\* number of records the data thread delivers in a behaviour
MaxRecords == 3
\* largest value the worker's error counter reaches in a behaviour
MaxErrors == 3
\* largest value of the steady clock
MaxSteady == 2
\* number of leading records of a process table that are drawn freely
MaxFill == 3
\* number of addWorkerProcess / removeWorkerProcess calls in a behaviour of
\* the table specification
MaxTableOps == 3

(* --------------------------- program constants ------------------------- *)
MAX_WORKER_PROCESSES == 64
HEARTBEAT_TIMEOUT == 60

Slots == 1..WorkerCount
Pids == 1..MaxPid
MaxTime == TickStep * MaxTicks

VARIABLES
    pc,                 \* position of the master process
    running_,           \* MasterProcess::running_
    g_shutdown_requested, \* master: set by signal_handler on SIGTERM/SIGINT
    g_child_exited,     \* master: set by signal_handler on SIGCHLD
    workers_,           \* MasterProcess::workers_ : worker_id -> WorkerInfo
    spawn_i,            \* loop variable of createWorkerProcesses
    wait_time,          \* loop variable of gracefulShutdown
    initialized_,       \* IPCManager::initialized_ in the master
    ipc_exists,         \* the queue, segment and semaphores exist in the OS
    shm_workers,        \* shared_data_->workers[0 .. worker_count-1]
    shutdown_flag,      \* shared_data_->shutdown_flag
    msg_queue,          \* messages in the System V queue, oldest first
    now,                \* time(nullptr)
    procState,          \* OS view of each pid: none / alive / zombie / reaped
    slotOf,             \* worker_id a pid was forked for (0: never forked)
    next_pid,           \* pid the next successful fork() returns
    sigterm,            \* live workers that have been delivered SIGTERM
    killCount,          \* number of SIGKILLs sent to each pid
    windowReaped,       \* pids reaped by the wait loop of gracefulShutdown
    windowAllExited,    \* no worker was alive at the wait loop's last test
                        \* of g_child_exited
    gracefulAllAlive    \* every slot had a live worker when SIGTERM was sent

\* state of the substrate that only the substrate specification (IpcSpec)
\* moves: there IPCManager is called by the master and by attached workers
VARIABLES
    sem,                \* value of each semaphore of the set
    semadj,             \* SEM_UNDO adjustment of each process per semaphore
    reload_flag,        \* shared_data_->reload_flag
    stats,              \* shared_data_->stats
    leftover,           \* IPC objects under the keys left by an earlier run
    mgr,                \* IPCManager fields of each worker process
    wpc,                \* position of each worker process
    op,                 \* substrate operation each process is executing
    ret,                \* what the last call that returned has returned
    msg_seq,            \* identity given to the next message enqueued
    recv_count          \* how often each message was returned by a receive

ipcVars == << sem, semadj, reload_flag, stats, leftover, mgr, wpc, op, ret,
              msg_seq, recv_count >>

\* state of the master outside the substrate that the reload handling and a
\* repeated shutdown request move
VARIABLES
    g_reload_requested, \* master: set by signal_handler on SIGHUP
    sighup,             \* number of SIGHUPs the master has sent to each pid
    again               \* which kinds of shutdown request were repeated after
                        \* stop() ran: "signal", "stop"

extVars == << g_reload_requested, sighup, again >>

\* state of one worker process at run time (WorkerProcess and the business
\* unit it drives), which only the worker specification (WorkerSpec) moves
VARIABLES
    w_entry,            \* how the worker was started: "fork" by
                        \* execWorkerProcess, "main" by runWorkerProcess
    w_pc,               \* position of the worker's main thread
    w_running,          \* WorkerProcess::running_
    w_shutdown_requested, \* worker: g_shutdown_requested of worker_process.cpp
    conn,               \* DefaultMarketSDK::connection_status_
    t_alive,            \* the data thread of the business unit exists
    t_pc,               \* position of the data thread
    data_buffers_,      \* WorkerProcess::data_buffers_ of one category
    statistics_,        \* WorkerProcess::statistics_
    sunk,               \* how often each record was handed to the sink
    next_rec,           \* identity of the next record produced
    reported,           \* statuses sent with sendStatusUpdate so far
    left_by,            \* what made the main loop end: signal, flag, message
    reconnect_failures, \* consecutive failed calls of handleReconnection
    steady_now,         \* std::chrono::steady_clock::now()
    iter_now,           \* mainLoop: now of the current iteration
    last_flush,         \* mainLoop: last_flush
    m_flush,            \* batch and sink result of the flush the main thread
                        \* is in
    t_flush,            \* the same for the data thread
    flush_ret           \* where flushDataBuffers was called from

rtVars == << w_entry, w_pc, w_running, w_shutdown_requested, conn, t_alive,
             t_pc, data_buffers_, statistics_, sunk, next_rec, reported,
             left_by, reconnect_failures, steady_now, iter_now, last_flush,
             m_flush, t_flush, flush_ret >>

\* the process table as the segment holds it, which only the table
\* specification (TableSpec) moves
VARIABLES
    tbl_workers,        \* shared_data_->workers[0 .. MAX_WORKER_PROCESSES-1],
                        \* indexed from 1
    tbl_count,          \* shared_data_->worker_count
    tbl_ret,            \* the last call on the table and what it returned
    tbl_ops             \* number of calls made so far

tblVars == << tbl_workers, tbl_count, tbl_ret, tbl_ops >>

auxVars == << extVars, rtVars, tblVars >>

vars == << pc, running_, g_shutdown_requested, g_child_exited, workers_,
           spawn_i, wait_time, initialized_, ipc_exists, shm_workers,
           shutdown_flag, msg_queue, now, procState, slotOf, next_pid,
           sigterm, killCount, windowReaped, windowAllExited,
           gracefulAllAlive, ipcVars, auxVars >>

(* ------------------------ IPCManager: process table -------------------- *)
TablePids(tbl) == { tbl[i].pid : i \in 1..Len(tbl) }

\* index of the first record with this pid, 0 when there is none
FirstIndex(tbl, pid) ==
    IF \E i \in 1..Len(tbl) : tbl[i].pid = pid
    THEN CHOOSE i \in 1..Len(tbl) :
            /\ tbl[i].pid = pid
            /\ \A j \in 1..(i-1) : tbl[j].pid # pid
    ELSE 0

\* faulty variant: the record is written but worker_count is not incremented
addWorkerProcess_noCount(tbl, pid, worker_id, t) == tbl

\* IPCManager::addWorkerProcess: append a STARTING record unless the table
\* is full
addWorkerProcess(tbl, pid, worker_id, t) ==
    IF Len(tbl) < MAX_WORKER_PROCESSES
    THEN Append(tbl, [pid |-> pid, worker_id |-> worker_id,
                      status |-> "STARTING", last_heartbeat |-> t])
    ELSE tbl

\* faulty variant: the record of the dead pid is left in the table
removeWorkerProcess_keep(tbl, pid) == tbl

removeWorkerProcess(tbl, pid) ==
    LET i == FirstIndex(tbl, pid) IN
    IF i = 0 THEN tbl
    ELSE SubSeq(tbl, 1, i - 1) \o SubSeq(tbl, i + 1, Len(tbl))

\* faulty variant: when no record has the pid, the first record is updated
updateWorkerStatus_first(tbl, pid, status, t) ==
    LET i == FirstIndex(tbl, pid) IN
    IF tbl = << >> THEN tbl
    ELSE IF i = 0 THEN [tbl EXCEPT ![1].status = status, ![1].last_heartbeat = t]
    ELSE [tbl EXCEPT ![i].status = status, ![i].last_heartbeat = t]

\* IPCManager::updateWorkerStatus: status and last_heartbeat of the first
\* record with the pid; nothing when there is none
updateWorkerStatus(tbl, pid, status, t) ==
    LET i == FirstIndex(tbl, pid) IN
    IF i = 0 THEN tbl
    ELSE [tbl EXCEPT ![i].status = status, ![i].last_heartbeat = t]

\* ProcessInfo snapshot returned by getWorkerProcesses / getAllProcesses
getWorkerProcesses(tbl) == { tbl[i] : i \in 1..Len(tbl) }

\* faulty variant: the flag is inverted instead of assigned
setShutdownFlag_toggle(sd, old, flag) == IF sd THEN ~old ELSE old

\* IPCManager::setShutdownFlag(flag): nothing without shared_data_
setShutdownFlag(sd, old, flag) == IF sd THEN flag ELSE old

\* getShutdownFlag: false once shared_data_ has been detached
getShutdownFlag == IF initialized_ THEN shutdown_flag ELSE FALSE

(* ------------------------ IPCManager: message queue -------------------- *)
\* the message built by WorkerProcess::sendHeartbeat
Heartbeat(p) == [type |-> "HEARTBEAT", sender_pid |-> p]

\* one iteration of the switch in MasterProcess::processIPCMessages
dispatchMessage(tbl, m, t) ==
    IF m.type = "HEARTBEAT" THEN updateWorkerStatus(tbl, m.sender_pid, "RUNNING", t)
    ELSE IF m.type = "STATUS_UPDATE"
         THEN updateWorkerStatus(tbl, m.sender_pid, m.status, t)
         ELSE tbl

RECURSIVE processIPCMessages(_, _, _)
processIPCMessages(tbl, q, t) ==
    IF q = << >> THEN tbl
    ELSE processIPCMessages(dispatchMessage(tbl, Head(q), t), Tail(q), t)

(* ------------------------ MasterProcess helpers ------------------------ *)
\* no reload requested, no SIGHUP sent, no shutdown request repeated
AuxInit ==
    /\ g_reload_requested = 0
    /\ sighup = [p \in Pids |-> 0]
    /\ again = {}

\* MasterProcess::worker_processes_: cleared by cleanup(), never filled
worker_processes_ == << >>

\* faulty variant: stop() runs the shutdown protocol whenever it is called
StopRuns_always(run) == TRUE

\* stop(): if (!running_) return;
StopRuns(run) == run

TrackedPids(wk) == { wk[w].pid : w \in DOMAIN wk }

\* std::find_if over workers_ (ordered by worker_id): first entry with the pid
FindWorker(wk, pid) ==
    IF \E w \in DOMAIN wk : wk[w].pid = pid
    THEN CHOOSE w \in DOMAIN wk :
            /\ wk[w].pid = pid
            /\ \A v \in DOMAIN wk : v < w => wk[v].pid # pid
    ELSE 0

\* workers_[worker_id] = worker_info   (createWorkerProcess, parent branch)
recordWorker(wk, worker_id, pid) ==
    [w \in (DOMAIN wk) \cup {worker_id} |->
        IF w = worker_id THEN [pid |-> pid, restart_count |-> 0] ELSE wk[w]]

\* faulty variant: the entry of a worker reaped during shutdown is kept
eraseWorker_keep(wk, worker_id) == wk

\* workers_.erase(it)
eraseWorker(wk, worker_id) ==
    [w \in (DOMAIN wk) \ {worker_id} |-> wk[w]]

\* the restart test of handleDeadWorker
ShouldRestart(run, flag) == run /\ ~flag

\* faulty variant: the wait loop has no time limit
GracefulWaitContinues_unbounded(wk, wt) == DOMAIN wk # {}

\* loop condition of the wait loop in gracefulShutdown
GracefulWaitContinues(wk, wt) == DOMAIN wk # {} /\ wt < max_wait_time

\* faulty variant: only records in status RUNNING are swept
HeartbeatTimedOut_runningOnly(t, rec) ==
    rec.status = "RUNNING" /\ t - rec.last_heartbeat > HEARTBEAT_TIMEOUT

\* heartbeat test of the liveness sweep
HeartbeatTimedOut(t, rec) == t - rec.last_heartbeat > HEARTBEAT_TIMEOUT

MainLoopPcs == {"loop", "chk_child", "reap", "clr_child", "msgs", "sweep"}
ReapPcs == {"reap", "gs_reap"}

(* ------------- IPCManager as seen by the master and the workers -------- *)
Master == 0
Procs == {Master} \cup Slots
IpcObjects == {"queue", "shm", "sem"}
SemIndex == {"SEM_WORKER_LIST", "SEM_STATISTICS"}
MsgTypes == {"HEARTBEAT", "STATUS_UPDATE", "ERROR_REPORT", "STATISTICS"}
ANY == "ANY"

\* the object with the key exists in the OS: created by this master or left
\* under the same key by an earlier run
ObjExists(o) == ipc_exists \/ o \in leftover

\* fields of an IPCManager on which initialize() was never called
NoManager ==
    [is_master_ |-> FALSE, initialized_ |-> FALSE, msg_queue_id_ |-> FALSE,
     sem_id_ |-> FALSE, shared_data_ |-> FALSE]

\* fields of the master's IPCManager (the ids are valid while initialized_)
MasterManager ==
    [is_master_ |-> TRUE, initialized_ |-> initialized_,
     msg_queue_id_ |-> initialized_, sem_id_ |-> initialized_,
     shared_data_ |-> initialized_]

Mgr(p) == IF p = Master THEN MasterManager ELSE mgr[p]

\* faulty variant: an object that exists already makes the create fail
createObject_failOnExisting(exists) == [ok |-> ~exists, recreated |-> FALSE]

\* msgget / shmget / semget with IPC_CREAT | IPC_EXCL and, on EEXIST,
\* get + IPC_RMID + create again
createObject(exists) == [ok |-> TRUE, recreated |-> exists]

\* initializeSharedData: memset 0, flags false, worker_count 0
FreshStats == [messages_processed |-> 0, data_received |-> 0,
               data_sent |-> 0, errors |-> 0]

\* IPCManager::updateStatistics: shared_data_->stats = stats
updateStatistics(old, snapshot) == snapshot

\* faulty variant: the result of the connects is ignored
initializeWorker_ignoresFailure(m, qE, shmE, semE) ==
    [ok |-> TRUE,
     m |-> [is_master_ |-> FALSE, initialized_ |-> TRUE, msg_queue_id_ |-> TRUE,
            sem_id_ |-> TRUE, shared_data_ |-> TRUE]]

\* IPCManager::initializeWorker on the fields m: connect to the queue, the
\* segment and the semaphores, in this order, stopping at the first failure
initializeWorker(m, qE, shmE, semE) ==
    LET m0 == [m EXCEPT !.is_master_ = FALSE]
        m1 == [m0 EXCEPT !.msg_queue_id_ = qE]
        m2 == [m1 EXCEPT !.shared_data_ = IF shmE THEN TRUE ELSE @]
        m3 == [m2 EXCEPT !.sem_id_ = semE]
    IN  IF ~qE THEN [ok |-> FALSE, m |-> m1]
        ELSE IF ~shmE THEN [ok |-> FALSE, m |-> m2]
        ELSE IF ~semE THEN [ok |-> FALSE, m |-> m3]
        ELSE [ok |-> TRUE, m |-> [m3 EXCEPT !.initialized_ = TRUE]]

\* faulty variant: every process removes the IPC objects in cleanup
cleanup_alwaysRemoves(m) ==
    IF ~m.initialized_ THEN [removes |-> FALSE, m |-> m]
    ELSE [removes |-> TRUE,
          m |-> [m EXCEPT !.initialized_ = FALSE, !.msg_queue_id_ = FALSE,
                          !.sem_id_ = FALSE, !.shared_data_ = FALSE]]

\* IPCManager::cleanup: detach; IPC_RMID only when is_master_
cleanup(m) ==
    IF ~m.initialized_ THEN [removes |-> FALSE, m |-> m]
    ELSE [removes |-> m.is_master_,
          m |-> [m EXCEPT !.initialized_ = FALSE, !.msg_queue_id_ = FALSE,
                          !.sem_id_ = FALSE, !.shared_data_ = FALSE]]

\* faulty variant: a full queue does not make the send fail
sendMessage_overflow(m, q, msg) ==
    IF ~m.initialized_ \/ ~m.msg_queue_id_ \/ ~ObjExists("queue")
    THEN [ok |-> FALSE, q |-> q]
    ELSE [ok |-> TRUE, q |-> Append(q, msg)]

\* IPCManager::sendMessage: msgsnd with IPC_NOWAIT
sendMessage(m, q, msg) ==
    IF ~m.initialized_ \/ ~m.msg_queue_id_ \/ ~ObjExists("queue")
    THEN [ok |-> FALSE, q |-> q]
    ELSE IF Len(q) >= QueueCap
         THEN [ok |-> FALSE, q |-> q]
         ELSE [ok |-> TRUE, q |-> Append(q, msg)]

\* faulty variant: the type filter is ignored
FirstOfType_ignoresType(q, type) == IF q = << >> THEN 0 ELSE 1

\* msgrcv's choice: msgtyp 0 takes the first message, msgtyp > 0 the first
\* message of that type; 0 when there is none
FirstOfType(q, type) ==
    IF \E i \in 1..Len(q) : type = ANY \/ q[i].type = type
    THEN CHOOSE i \in 1..Len(q) :
            /\ type = ANY \/ q[i].type = type
            /\ \A j \in 1..(i - 1) : ~(type = ANY \/ q[j].type = type)
    ELSE 0

NoMsg == [type |-> "NONE", sender_pid |-> 0, id |-> 0]

\* faulty variant: the message returned stays in the queue
receiveMessage_peek(m, q, type) ==
    LET i == FirstOfType(q, type) IN
    IF ~m.initialized_ \/ ~m.msg_queue_id_ \/ ~ObjExists("queue") \/ i = 0
    THEN [ok |-> FALSE, msg |-> NoMsg, q |-> q]
    ELSE [ok |-> TRUE, msg |-> q[i], q |-> q]

\* IPCManager::receiveMessage with blocking = false: msgrcv with IPC_NOWAIT
receiveMessage(m, q, type) ==
    LET i == FirstOfType(q, type) IN
    IF ~m.initialized_ \/ ~m.msg_queue_id_ \/ ~ObjExists("queue") \/ i = 0
    THEN [ok |-> FALSE, msg |-> NoMsg, q |-> q]
    ELSE [ok |-> TRUE, msg |-> q[i],
          q |-> SubSeq(q, 1, i - 1) \o SubSeq(q, i + 1, Len(q))]

\* semaphore each locking operation takes
SemOf(name) ==
    IF name \in {"updateStatistics", "getStatistics"}
    THEN "SEM_STATISTICS" ELSE "SEM_WORKER_LIST"

ReadOps == {"getStatistics", "getWorkerProcesses"}
WriteOps == {"addWorkerProcess", "removeWorkerProcess", "updateWorkerStatus",
             "updateStatistics"}

\* faulty variant: semop does not wait for the semaphore to be positive
lockSharedMemory_noWait(m, exists, v) ==
    IF ~m.initialized_ \/ ~m.sem_id_ \/ ~exists THEN "fail" ELSE "acquire"

\* IPCManager::lockSharedMemory: semop(-1, SEM_UNDO)
lockSharedMemory(m, exists, v) ==
    IF ~m.initialized_ \/ ~m.sem_id_ \/ ~exists THEN "fail"
    ELSE IF v > 0 THEN "acquire" ELSE "block"

\* faulty variant: the semaphore is not released
unlockSharedMemory_skip(m, exists) == 0

\* IPCManager::unlockSharedMemory: semop(+1, SEM_UNDO); the amount added
unlockSharedMemory(m, exists) ==
    IF ~m.initialized_ \/ ~m.sem_id_ \/ ~exists THEN 0 ELSE 1

\* removeWorkerProcess after its shifting loop, before worker_count--
removeShifted(tbl, pid) ==
    LET i == FirstIndex(tbl, pid) IN
    IF i = 0 THEN tbl
    ELSE [j \in 1..Len(tbl) |->
            IF j >= i /\ j < Len(tbl) THEN tbl[j + 1] ELSE tbl[j]]

\* updateWorkerStatus after the write of status, before last_heartbeat
updateStatusOnly(tbl, pid, status) ==
    LET i == FirstIndex(tbl, pid) IN
    IF i = 0 THEN tbl ELSE [tbl EXCEPT ![i].status = status]

\* operation record of a process that is not inside a substrate operation
IdleOp == [name |-> "none", pid |-> 0, arg |-> 0, phase |-> "idle", res |-> FALSE]
NoRet == [call |-> "none", ok |-> FALSE, val |-> 0]

\* no flush in progress in a thread
NoFlush == [batch |-> << >>, ok |-> TRUE]

\* a worker object before initialize(): nothing connected, buffered or sent
RtIdle ==
    /\ w_running = FALSE
    /\ w_shutdown_requested = 0
    /\ conn = "DISCONNECTED"
    /\ t_alive = FALSE
    /\ t_pc = "idle"
    /\ data_buffers_ = << >>
    /\ statistics_ = FreshStats
    /\ sunk = [r \in 1..MaxRecords |-> 0]
    /\ next_rec = 1
    /\ reported = {}
    /\ left_by = "none"
    /\ reconnect_failures = 0
    /\ steady_now = 0
    /\ iter_now = 0
    /\ last_flush = 0
    /\ m_flush = NoFlush
    /\ t_flush = NoFlush
    /\ flush_ret = "loop"

\* the worker runtime is not followed
RtInit == w_entry = "fork" /\ w_pc = "none" /\ RtIdle

\* a ProcessInfo of the zeroed segment
NoRecord == [pid |-> 0, worker_id |-> 0]

\* no call on the table has returned yet
NoTableCall == [call |-> "none", ok |-> FALSE, pid |-> 0, locked |-> FALSE]

\* initializeSharedData: memset 0, worker_count = 0
TblIdle ==
    /\ tbl_workers = [i \in 1..MAX_WORKER_PROCESSES |-> NoRecord]
    /\ tbl_count = 0
    /\ tbl_ret = NoTableCall
    /\ tbl_ops = 0

(* ------------------------------- Init ---------------------------------- *)
\* state after MasterProcess::initialize() returned true
Init ==
    /\ AuxInit
    /\ RtInit
    /\ TblIdle
    /\ pc = "run"
    /\ running_ = FALSE
    /\ g_shutdown_requested = 0
    /\ g_child_exited = 0
    /\ workers_ = << >>
    /\ spawn_i = 0
    /\ wait_time = 0
    /\ initialized_ = TRUE
    /\ ipc_exists = TRUE
    /\ shm_workers = << >>
    /\ shutdown_flag = FALSE
    /\ msg_queue = << >>
    /\ now = 0
    /\ procState = [p \in Pids |-> "none"]
    /\ slotOf = [p \in Pids |-> 0]
    /\ next_pid = 1
    /\ sigterm = {}
    /\ killCount = [p \in Pids |-> 0]
    /\ windowReaped = {}
    /\ windowAllExited = FALSE
    /\ gracefulAllAlive = FALSE
    /\ sem = [s \in SemIndex |-> 1]
    /\ semadj = [p \in Procs |-> [s \in SemIndex |-> 0]]
    /\ reload_flag = FALSE
    /\ stats = FreshStats
    /\ leftover = {}
    /\ mgr = [w \in Slots |-> NoManager]
    /\ wpc = [w \in Slots |-> "none"]
    /\ op = [p \in Procs |-> IdleOp]
    /\ ret = NoRet
    /\ msg_seq = 1
    /\ recv_count = [i \in 1..MaxMsgs |-> 0]

(* ----------------------------- master steps ---------------------------- *)
\* MasterProcess::run up to the call of createWorkerProcesses
Run ==
    /\ UNCHANGED << ipcVars, auxVars >>
    /\ pc = "run"
    /\ running_' = TRUE
    /\ spawn_i' = 0
    /\ pc' = "spawn"
    /\ UNCHANGED << g_shutdown_requested, g_child_exited, workers_, wait_time,
                    initialized_, ipc_exists, shm_workers, shutdown_flag,
                    msg_queue, now, procState, slotOf, next_pid, sigterm,
                    killCount, windowReaped, windowAllExited, gracefulAllAlive >>

\* one iteration of createWorkerProcesses: createWorkerProcess(i + 1)
CreateWorkerProcesses(forkOk) ==
    /\ UNCHANGED << ipcVars, auxVars >>
    /\ pc = "spawn"
    /\ spawn_i < WorkerCount
    /\ IF forkOk /\ next_pid <= MaxPid
       THEN /\ procState' = [procState EXCEPT ![next_pid] = "alive"]
            /\ slotOf' = [slotOf EXCEPT ![next_pid] = spawn_i + 1]
            /\ workers_' = recordWorker(workers_, spawn_i + 1, next_pid)
            /\ shm_workers' = addWorkerProcess(shm_workers, next_pid, spawn_i + 1, now)
            /\ next_pid' = next_pid + 1
            /\ spawn_i' = spawn_i + 1
            /\ UNCHANGED << pc, running_ >>
       ELSE \* fork() < 0: run() sets running_ = false and returns
            /\ running_' = FALSE
            /\ pc' = "returned"
            /\ UNCHANGED << procState, slotOf, workers_, shm_workers, next_pid, spawn_i >>
    /\ UNCHANGED << g_shutdown_requested, g_child_exited, wait_time, initialized_,
                    ipc_exists, shutdown_flag, msg_queue, now, sigterm,
                    killCount, windowReaped, windowAllExited, gracefulAllAlive >>

\* all workers created: run() enters the main loop
EnterMainLoop ==
    /\ UNCHANGED << ipcVars, auxVars >>
    /\ pc = "spawn"
    /\ spawn_i >= WorkerCount
    /\ pc' = "loop"
    /\ UNCHANGED << running_, g_shutdown_requested, g_child_exited, workers_,
                    spawn_i, wait_time, initialized_, ipc_exists, shm_workers,
                    shutdown_flag, msg_queue, now, procState, slotOf, next_pid,
                    sigterm, killCount, windowReaped, windowAllExited, gracefulAllAlive >>

\* top of the main loop: while (running_) { if (g_shutdown_requested) break; ...
LoopTop ==
    /\ UNCHANGED << ipcVars, auxVars >>
    /\ pc = "loop"
    /\ pc' = IF running_ /\ g_shutdown_requested = 0 THEN "chk_child" ELSE "returned"
    /\ UNCHANGED << running_, g_shutdown_requested, g_child_exited, workers_,
                    spawn_i, wait_time, initialized_, ipc_exists, shm_workers,
                    shutdown_flag, msg_queue, now, procState, slotOf, next_pid,
                    sigterm, killCount, windowReaped, windowAllExited, gracefulAllAlive >>

\* if (g_child_exited) { handleDeadWorker(0); ...
CheckChildExited ==
    /\ UNCHANGED << ipcVars, auxVars >>
    /\ pc = "chk_child"
    /\ g_reload_requested = 0
    /\ pc' = IF g_child_exited = 1 THEN "reap" ELSE "msgs"
    /\ UNCHANGED << running_, g_shutdown_requested, g_child_exited, workers_,
                    spawn_i, wait_time, initialized_, ipc_exists, shm_workers,
                    shutdown_flag, msg_queue, now, procState, slotOf, next_pid,
                    sigterm, killCount, windowReaped, windowAllExited, gracefulAllAlive >>

\* one iteration of the waitpid loop of handleDeadWorker: waitpid returned p
HandleDeadWorker(p, forkOk) ==
    /\ UNCHANGED << ipcVars, auxVars >>
    /\ pc \in ReapPcs
    /\ procState[p] = "zombie"
    /\ LET w == FindWorker(workers_, p)
           reaped == [procState EXCEPT ![p] = "reaped"]
       IN
       IF w = 0
       THEN /\ procState' = reaped
            /\ UNCHANGED << workers_, shm_workers, slotOf, next_pid >>
       ELSE LET tbl == removeWorkerProcess(shm_workers, p) IN
            IF ShouldRestart(running_, getShutdownFlag)
            THEN IF forkOk /\ next_pid <= MaxPid
                 THEN \* restart_count++ on the old entry, then createWorkerProcess
                      /\ procState' = [reaped EXCEPT ![next_pid] = "alive"]
                      /\ slotOf' = [slotOf EXCEPT ![next_pid] = w]
                      /\ workers_' = recordWorker(
                            [workers_ EXCEPT ![w].restart_count = @ + 1], w, next_pid)
                      /\ shm_workers' = addWorkerProcess(tbl, next_pid, w, now)
                      /\ next_pid' = next_pid + 1
                 ELSE \* fork failed: only the counter of the old entry changed
                      /\ procState' = reaped
                      /\ workers_' = [workers_ EXCEPT ![w].restart_count = @ + 1]
                      /\ shm_workers' = tbl
                      /\ UNCHANGED << slotOf, next_pid >>
            ELSE /\ procState' = reaped
                 /\ workers_' = eraseWorker(workers_, w)
                 /\ shm_workers' = tbl
                 /\ UNCHANGED << slotOf, next_pid >>
    /\ windowReaped' = IF pc = "gs_reap" THEN windowReaped \cup {p} ELSE windowReaped
    /\ UNCHANGED << pc, running_, g_shutdown_requested, g_child_exited, spawn_i,
                    wait_time, initialized_, ipc_exists, shutdown_flag, msg_queue,
                    now, sigterm, killCount, windowAllExited, gracefulAllAlive >>

\* waitpid returned 0 or -1: the loop of handleDeadWorker ends
HandleDeadWorkerDone ==
    /\ UNCHANGED << ipcVars, auxVars >>
    /\ pc \in ReapPcs
    /\ \A p \in Pids : procState[p] # "zombie"
    /\ pc' = IF pc = "reap" THEN "clr_child" ELSE "gs_clr_child"
    /\ UNCHANGED << running_, g_shutdown_requested, g_child_exited, workers_,
                    spawn_i, wait_time, initialized_, ipc_exists, shm_workers,
                    shutdown_flag, msg_queue, now, procState, slotOf, next_pid,
                    sigterm, killCount, windowReaped, windowAllExited, gracefulAllAlive >>

\* g_child_exited = 0;
ClearChildExited ==
    /\ UNCHANGED << ipcVars, auxVars >>
    /\ pc \in {"clr_child", "gs_clr_child"}
    /\ g_child_exited' = 0
    /\ pc' = IF pc = "clr_child" THEN "msgs" ELSE "gs_wait"
    /\ UNCHANGED << running_, g_shutdown_requested, workers_,
                    spawn_i, wait_time, initialized_, ipc_exists, shm_workers,
                    shutdown_flag, msg_queue, now, procState, slotOf, next_pid,
                    sigterm, killCount, windowReaped, windowAllExited, gracefulAllAlive >>

\* MasterProcess::processIPCMessages: drain the queue
ProcessIPCMessages ==
    /\ UNCHANGED << ipcVars, auxVars >>
    /\ pc = "msgs"
    /\ shm_workers' = processIPCMessages(shm_workers, msg_queue, now)
    /\ msg_queue' = << >>
    /\ pc' = "sweep"
    /\ UNCHANGED << running_, g_shutdown_requested, g_child_exited, workers_,
                    spawn_i, wait_time, initialized_, ipc_exists,
                    shutdown_flag, now, procState, slotOf, next_pid,
                    sigterm, killCount, windowReaped, windowAllExited, gracefulAllAlive >>

\* the liveness sweep: SIGTERM to every record whose heartbeat timed out
MonitorWorkerProcesses ==
    /\ UNCHANGED << ipcVars, auxVars >>
    /\ pc = "sweep"
    /\ sigterm' = sigterm \cup
          { r.pid : r \in { x \in getWorkerProcesses(shm_workers) :
                              /\ HeartbeatTimedOut(now, x)
                              /\ procState[x.pid] = "alive" } }
    /\ pc' = "loop"
    /\ UNCHANGED << running_, g_shutdown_requested, g_child_exited, workers_,
                    spawn_i, wait_time, initialized_, ipc_exists, shm_workers,
                    shutdown_flag, msg_queue, now, procState, slotOf, next_pid,
                    killCount, windowReaped, windowAllExited, gracefulAllAlive >>

\* ~MasterProcess -> stop(): no-op unless running_; else mark stopped and
\* set the shared shutdown flag
Stop ==
    /\ UNCHANGED << ipcVars, auxVars >>
    /\ pc = "returned"
    /\ IF StopRuns(running_)
       THEN /\ running_' = FALSE
            /\ shutdown_flag' = TRUE
            /\ pc' = "gs_term"
       ELSE /\ pc' = "static_dtor"
            /\ UNCHANGED << running_, shutdown_flag >>
    /\ UNCHANGED << g_shutdown_requested, g_child_exited, workers_, spawn_i,
                    wait_time, initialized_, ipc_exists, shm_workers, msg_queue,
                    now, procState, slotOf, next_pid, sigterm, killCount,
                    windowReaped, windowAllExited, gracefulAllAlive >>

\* gracefulShutdown: SIGTERM to every entry of workers_, wait_time = 0
GracefulSigterm ==
    /\ UNCHANGED << ipcVars, auxVars >>
    /\ pc = "gs_term"
    /\ sigterm' = sigterm \cup { p \in TrackedPids(workers_) : procState[p] = "alive" }
    /\ wait_time' = 0
    /\ gracefulAllAlive' = /\ DOMAIN workers_ = Slots
                           /\ \A w \in Slots : procState[workers_[w].pid] = "alive"
    /\ pc' = "gs_wait"
    /\ UNCHANGED << running_, g_shutdown_requested, g_child_exited, workers_,
                    spawn_i, initialized_, ipc_exists, shm_workers, shutdown_flag,
                    msg_queue, now, procState, slotOf, next_pid, killCount,
                    windowReaped, windowAllExited >>

\* one iteration of the wait loop up to the test of g_child_exited:
\* sleep 1s, wait_time++ (the guard keeps wait_time below max_wait_time here)
GracefulWait ==
    /\ UNCHANGED << ipcVars, auxVars >>
    /\ pc = "gs_wait"
    /\ GracefulWaitContinues(workers_, wait_time)
    /\ wait_time' = IF wait_time < max_wait_time THEN wait_time + 1 ELSE wait_time
    /\ pc' = IF g_child_exited = 1 THEN "gs_reap" ELSE "gs_wait"
    /\ windowAllExited' = (\A p \in Pids : procState[p] # "alive")
    /\ UNCHANGED << running_, g_shutdown_requested, g_child_exited, workers_,
                    spawn_i, initialized_, ipc_exists, shm_workers, shutdown_flag,
                    msg_queue, now, procState, slotOf, next_pid, sigterm,
                    killCount, windowReaped, gracefulAllAlive >>

\* the wait loop ends: workers_ is empty or the window has elapsed
GracefulWaitEnd ==
    /\ UNCHANGED << ipcVars, auxVars >>
    /\ pc = "gs_wait"
    /\ ~GracefulWaitContinues(workers_, wait_time)
    /\ pc' = IF DOMAIN workers_ # {} THEN "gs_kill" ELSE "cleanup"
    /\ UNCHANGED << running_, g_shutdown_requested, g_child_exited, workers_,
                    spawn_i, wait_time, initialized_, ipc_exists, shm_workers,
                    shutdown_flag, msg_queue, now, procState, slotOf, next_pid,
                    sigterm, killCount, windowReaped, windowAllExited,
                    gracefulAllAlive >>

\* SIGKILL to every entry still in workers_ (then sleep 2s)
ForceKill ==
    /\ UNCHANGED << ipcVars, auxVars >>
    /\ pc = "gs_kill"
    /\ killCount' = [p \in Pids |->
            IF p \in TrackedPids(workers_) THEN killCount[p] + 1 ELSE killCount[p]]
    /\ pc' = "gs_zombie"
    /\ UNCHANGED << running_, g_shutdown_requested, g_child_exited, workers_,
                    spawn_i, wait_time, initialized_, ipc_exists, shm_workers,
                    shutdown_flag, msg_queue, now, procState, slotOf, next_pid,
                    sigterm, windowReaped, windowAllExited, gracefulAllAlive >>

\* final loop of gracefulShutdown: waitpid returned p (no bookkeeping)
ReapZombie(p) ==
    /\ UNCHANGED << ipcVars, auxVars >>
    /\ pc = "gs_zombie"
    /\ procState[p] = "zombie"
    /\ procState' = [procState EXCEPT ![p] = "reaped"]
    /\ UNCHANGED << pc, running_, g_shutdown_requested, g_child_exited, workers_,
                    spawn_i, wait_time, initialized_, ipc_exists, shm_workers,
                    shutdown_flag, msg_queue, now, slotOf, next_pid,
                    sigterm, killCount, windowReaped, windowAllExited, gracefulAllAlive >>

\* final loop of gracefulShutdown: waitpid returned 0 or -1
ReapZombieDone ==
    /\ UNCHANGED << ipcVars, auxVars >>
    /\ pc = "gs_zombie"
    /\ \A p \in Pids : procState[p] # "zombie"
    /\ pc' = "cleanup"
    /\ UNCHANGED << running_, g_shutdown_requested, g_child_exited, workers_,
                    spawn_i, wait_time, initialized_, ipc_exists, shm_workers,
                    shutdown_flag, msg_queue, now, procState, slotOf, next_pid,
                    sigterm, killCount, windowReaped, windowAllExited, gracefulAllAlive >>

\* MasterProcess::cleanup -> IPCManager::cleanup (master: IPC_RMID);
\* it clears worker_processes_, not workers_
Cleanup ==
    /\ UNCHANGED << ipcVars, auxVars >>
    /\ pc = "cleanup"
    /\ IF initialized_
       THEN /\ ipc_exists' = FALSE
            /\ initialized_' = FALSE
            /\ msg_queue' = << >>
       ELSE UNCHANGED << ipc_exists, initialized_, msg_queue >>
    /\ pc' = "static_dtor"
    /\ UNCHANGED << running_, g_shutdown_requested, g_child_exited, workers_,
                    spawn_i, wait_time, shm_workers, shutdown_flag, now,
                    procState, slotOf, next_pid, sigterm, killCount,
                    windowReaped, windowAllExited, gracefulAllAlive >>

\* stop() is called once more after it has returned
StopAgain ==
    /\ pc = "static_dtor"
    /\ "stop" \notin again
    /\ again' = again \cup {"stop"}
    /\ IF StopRuns(running_)
       THEN /\ running_' = FALSE
            /\ shutdown_flag' = TRUE
            /\ pc' = "gs_term"
       ELSE UNCHANGED << pc, running_, shutdown_flag >>
    /\ UNCHANGED << g_shutdown_requested, g_child_exited, workers_, spawn_i,
                    wait_time, initialized_, ipc_exists, shm_workers, msg_queue,
                    now, procState, slotOf, next_pid, sigterm, killCount,
                    windowReaped, windowAllExited, gracefulAllAlive,
                    ipcVars, g_reload_requested, sighup, rtVars, tblVars >>

\* process exit: IPCManager::~IPCManager -> cleanup()
StaticDestructor ==
    /\ UNCHANGED << ipcVars, auxVars >>
    /\ pc = "static_dtor"
    /\ IF initialized_
       THEN /\ ipc_exists' = FALSE
            /\ initialized_' = FALSE
            /\ msg_queue' = << >>
       ELSE UNCHANGED << ipc_exists, initialized_, msg_queue >>
    /\ pc' = "exited"
    /\ UNCHANGED << running_, g_shutdown_requested, g_child_exited, workers_,
                    spawn_i, wait_time, shm_workers, shutdown_flag, now,
                    procState, slotOf, next_pid, sigterm, killCount,
                    windowReaped, windowAllExited, gracefulAllAlive >>

(* ------------------------- environment and workers --------------------- *)
\* SIGTERM / SIGINT delivered to the master: signal_handler
RequestShutdown ==
    /\ UNCHANGED << ipcVars, auxVars >>
    /\ pc # "exited"
    /\ g_shutdown_requested = 0
    /\ g_shutdown_requested' = 1
    /\ UNCHANGED << pc, running_, g_child_exited, workers_, spawn_i, wait_time,
                    initialized_, ipc_exists, shm_workers, shutdown_flag,
                    msg_queue, now, procState, slotOf, next_pid, sigterm,
                    killCount, windowReaped, windowAllExited, gracefulAllAlive >>

\* SIGTERM / SIGINT delivered again after stop() has begun: signal_handler
RequestShutdownAgain ==
    /\ pc # "exited"
    /\ shutdown_flag
    /\ g_shutdown_requested = 1
    /\ "signal" \notin again
    /\ g_shutdown_requested' = 1
    /\ again' = again \cup {"signal"}
    /\ UNCHANGED << pc, running_, g_child_exited, workers_, spawn_i, wait_time,
                    initialized_, ipc_exists, shm_workers, shutdown_flag,
                    msg_queue, now, procState, slotOf, next_pid, sigterm,
                    killCount, windowReaped, windowAllExited, gracefulAllAlive,
                    ipcVars, g_reload_requested, sighup, rtVars, tblVars >>

\* a worker process terminates (crash, exit after SIGTERM or the shutdown
\* flag, death by SIGKILL); the master gets SIGCHLD: signal_handler
WorkerExit(p) ==
    /\ UNCHANGED << ipcVars, auxVars >>
    /\ procState[p] = "alive"
    /\ procState' = [procState EXCEPT ![p] = "zombie"]
    /\ sigterm' = sigterm \ {p}
    /\ g_child_exited' = IF pc # "exited" THEN 1 ELSE g_child_exited
    /\ UNCHANGED << pc, running_, g_shutdown_requested, workers_, spawn_i,
                    wait_time, initialized_, ipc_exists, shm_workers,
                    shutdown_flag, msg_queue, now, slotOf, next_pid,
                    killCount, windowReaped, windowAllExited, gracefulAllAlive >>

\* WorkerProcess::sendHeartbeat -> IPCManager::sendMessage
\* (msgsnd with IPC_NOWAIT: a full queue drops the message)
WorkerSend(p, m) ==
    /\ UNCHANGED << ipcVars, auxVars >>
    /\ procState[p] = "alive"
    /\ ipc_exists
    /\ Len(msg_queue) < MaxQueue
    /\ msg_queue' = Append(msg_queue, m)
    /\ UNCHANGED << pc, running_, g_shutdown_requested, g_child_exited, workers_,
                    spawn_i, wait_time, initialized_, ipc_exists, shm_workers,
                    shutdown_flag, now, procState, slotOf, next_pid, sigterm,
                    killCount, windowReaped, windowAllExited, gracefulAllAlive >>

\* the wall clock advances; it is read only by the spawn and monitoring code
Tick ==
    /\ UNCHANGED << ipcVars, auxVars >>
    /\ pc \in MainLoopPcs \cup {"spawn"}
    /\ now < MaxTime
    /\ now' = now + TickStep
    /\ UNCHANGED << pc, running_, g_shutdown_requested, g_child_exited, workers_,
                    spawn_i, wait_time, initialized_, ipc_exists, shm_workers,
                    shutdown_flag, msg_queue, procState, slotOf, next_pid,
                    sigterm, killCount, windowReaped, windowAllExited, gracefulAllAlive >>

(* ------------------------------ specification -------------------------- *)
MasterStep ==
    \/ Run
    \/ \E forkOk \in BOOLEAN : CreateWorkerProcesses(forkOk)
    \/ EnterMainLoop
    \/ LoopTop
    \/ CheckChildExited
    \/ \E p \in Pids, forkOk \in BOOLEAN : HandleDeadWorker(p, forkOk)
    \/ HandleDeadWorkerDone
    \/ ClearChildExited
    \/ ProcessIPCMessages
    \/ MonitorWorkerProcesses
    \/ Stop
    \/ GracefulSigterm
    \/ GracefulWait
    \/ GracefulWaitEnd
    \/ ForceKill
    \/ \E p \in Pids : ReapZombie(p)
    \/ ReapZombieDone
    \/ Cleanup
    \/ StaticDestructor

Next ==
    \/ MasterStep
    \/ RequestShutdown
    \/ \E p \in Pids : WorkerExit(p)
    \/ \E p \in Pids : WorkerSend(p, Heartbeat(p))
    \/ Tick

Spec == Init /\ [][Next]_vars

\* the master process is scheduled; nothing is assumed about workers,
\* signals from outside or the clock
FairSpec == Spec /\ WF_vars(MasterStep)

\* SIGHUP delivered to the master: signal_handler
RequestReload ==
    /\ pc # "exited"
    /\ g_reload_requested = 0
    /\ g_reload_requested' = 1
    /\ UNCHANGED << pc, running_, g_shutdown_requested, g_child_exited, workers_,
                    spawn_i, wait_time, initialized_, ipc_exists, shm_workers,
                    shutdown_flag, msg_queue, now, procState, slotOf, next_pid,
                    sigterm, killCount, windowReaped, windowAllExited,
                    gracefulAllAlive, ipcVars, sighup, again, rtVars,
                    tblVars >>

\* main loop: if (g_reload_requested) { reload(); g_reload_requested = 0; }
\* reload(): re-read the configuration (ok: it succeeded), setReloadFlag(true),
\* SIGHUP to every entry of worker_processes_ with pid > 0
Reload(ok) ==
    /\ pc = "chk_child"
    /\ g_reload_requested = 1
    /\ IF ok
       THEN /\ reload_flag' = IF initialized_ THEN TRUE ELSE reload_flag
            /\ sighup' = [p \in Pids |->
                  IF \E i \in 1..Len(worker_processes_) :
                        worker_processes_[i].pid = p /\ p > 0
                  THEN sighup[p] + 1 ELSE sighup[p]]
       ELSE UNCHANGED << reload_flag, sighup >>
    /\ g_reload_requested' = 0
    /\ UNCHANGED << pc, running_, g_shutdown_requested, g_child_exited, workers_,
                    spawn_i, wait_time, initialized_, ipc_exists, shm_workers,
                    shutdown_flag, msg_queue, now, procState, slotOf, next_pid,
                    sigterm, killCount, windowReaped, windowAllExited,
                    gracefulAllAlive, again,
                    sem, semadj, stats, leftover, mgr, wpc, op, ret, msg_seq,
                    recv_count, rtVars, tblVars >>

\* the lifecycle with reload requests (the clock and the heartbeats, which
\* the reload handling does not read, stand still)
ReloadNext ==
    \/ MasterStep
    \/ \E ok \in BOOLEAN : Reload(ok)
    \/ RequestReload
    \/ RequestShutdown
    \/ \E p \in Pids : WorkerExit(p)

ReloadSpec == Init /\ [][ReloadNext]_vars

\* the lifecycle with shutdown requests repeated after stop() has run
StopNext ==
    \/ Next
    \/ RequestShutdownAgain
    \/ StopAgain

StopSpec == Init /\ [][StopNext]_vars

TypeOK ==
    /\ pc \in MainLoopPcs \cup {"run", "spawn", "returned", "gs_term", "gs_wait",
                                "gs_reap", "gs_clr_child", "gs_kill", "gs_zombie",
                                "cleanup", "static_dtor", "exited"}
    /\ wait_time \in 0..max_wait_time
    /\ now \in 0..MaxTime
    /\ Len(shm_workers) <= MAX_WORKER_PROCESSES
    /\ Len(msg_queue) <= MaxQueue
    /\ next_pid \in 1..(MaxPid + 1)

(* ---------------------------------------------------------------------- *)
(* The substrate specification: the master creates the substrate, forks    *)
(* workers that attach to it, and every attached process calls the public  *)
(* operations of IPCManager; a locking operation is three or four steps    *)
(* (lock, body, unlock), so operations of different processes interleave.  *)
(* ---------------------------------------------------------------------- *)
\* variables of the lifecycle specification that no substrate step moves
lifeVars == << running_, g_shutdown_requested, g_child_exited, workers_,
               spawn_i, wait_time, now, slotOf, next_pid, sigterm, killCount,
               windowReaped, windowAllExited, gracefulAllAlive, auxVars >>

\* what an earlier run that did not clean up left in the segment / the queue
StaleTable ==
    << [pid |-> MaxPid, worker_id |-> 1, status |-> "RUNNING", last_heartbeat |-> 0] >>
StaleQueue == << [type |-> "HEARTBEAT", sender_pid |-> MaxPid, id |-> 0] >>

\* state at the start of main(), before IPCManager::initialize(true)
IpcInit ==
    /\ AuxInit
    /\ RtInit
    /\ TblIdle
    /\ pc = "boot"
    /\ running_ = FALSE
    /\ g_shutdown_requested = 0
    /\ g_child_exited = 0
    /\ workers_ = << >>
    /\ spawn_i = 0
    /\ wait_time = 0
    /\ now = 0
    /\ slotOf = [p \in Pids |-> 0]
    /\ next_pid = 1
    /\ sigterm = {}
    /\ killCount = [p \in Pids |-> 0]
    /\ windowReaped = {}
    /\ windowAllExited = FALSE
    /\ gracefulAllAlive = FALSE
    /\ procState = [p \in Pids |-> "none"]
    /\ initialized_ = FALSE
    /\ ipc_exists = FALSE
    /\ leftover \in SUBSET IpcObjects
    /\ shm_workers = IF "shm" \in leftover THEN StaleTable ELSE << >>
    /\ shutdown_flag = ("shm" \in leftover)
    /\ reload_flag = ("shm" \in leftover)
    /\ stats = IF "shm" \in leftover
               THEN [messages_processed |-> 1, data_received |-> 1,
                     data_sent |-> 1, errors |-> 1]
               ELSE FreshStats
    /\ msg_queue = IF "queue" \in leftover THEN StaleQueue ELSE << >>
    /\ sem = [s \in SemIndex |-> IF "sem" \in leftover THEN 0 ELSE 1]
    /\ semadj = [p \in Procs |-> [s \in SemIndex |-> 0]]
    /\ mgr = [w \in Slots |-> NoManager]
    /\ wpc = [w \in Slots |-> "none"]
    /\ op = [p \in Procs |-> IdleOp]
    /\ ret = NoRet
    /\ msg_seq = 1
    /\ recv_count = [i \in 1..MaxMsgs |-> 0]

\* the process may call an operation of IPCManager now
CanCall(p) ==
    /\ op[p].phase = "idle"
    /\ IF p = Master THEN pc = "serve"
       ELSE procState[p] = "alive" /\ wpc[p] \in {"run", "failed"}

\* IPCManager::initialize(true) = initializeMaster: create the queue, the
\* segment and the semaphores, SETVAL 1, initializeSharedData
HInitializeMaster ==
    /\ pc \in {"boot", "serve"}
    /\ op[Master].phase = "idle"
    /\ \A w \in Slots : procState[w] = "none"
    /\ LET q == createObject(ObjExists("queue"))
           m == createObject(ObjExists("shm"))
           s == createObject(ObjExists("sem"))
       IN  IF q.ok /\ m.ok /\ s.ok
           THEN /\ pc' = "serve"
                /\ initialized_' = TRUE
                /\ ipc_exists' = TRUE
                /\ leftover' = {}
                /\ msg_queue' = IF ObjExists("queue") /\ ~q.recreated
                                THEN msg_queue ELSE << >>
                /\ shm_workers' = << >>
                /\ shutdown_flag' = FALSE
                /\ reload_flag' = FALSE
                /\ stats' = FreshStats
                /\ sem' = [x \in SemIndex |-> 1]
                /\ semadj' = [p \in Procs |-> [x \in SemIndex |-> 0]]
                /\ ret' = [call |-> "create", ok |-> TRUE,
                           val |-> Cardinality({ o \in IpcObjects :
                                       createObject(ObjExists(o)).recreated })]
           ELSE \* initialize() returned false: main() returns
                /\ pc' = "exited"
                /\ ret' = [call |-> "create", ok |-> FALSE, val |-> 0]
                /\ UNCHANGED << initialized_, ipc_exists, leftover, msg_queue,
                                shm_workers, shutdown_flag, reload_flag, stats,
                                sem, semadj >>
    /\ UNCHANGED << lifeVars, procState, mgr, wpc, op, msg_seq, recv_count >>

\* createWorkerProcess(w): fork(); the child inherits the master's
\* IPCManager; the parent goes on to call addWorkerProcess(pid, worker_id)
HFork(w) ==
    /\ CanCall(Master)
    /\ procState[w] = "none"
    /\ procState' = [procState EXCEPT ![w] = "alive"]
    /\ wpc' = [wpc EXCEPT ![w] = "init"]
    /\ mgr' = [mgr EXCEPT ![w] = MasterManager]
    /\ op' = [op EXCEPT ![Master] =
                [name |-> "addWorkerProcess", pid |-> w, arg |-> w,
                 phase |-> "call", res |-> FALSE]]
    /\ UNCHANGED << lifeVars, pc, initialized_, ipc_exists, shm_workers,
                    shutdown_flag, msg_queue, sem, semadj, reload_flag, stats,
                    leftover, ret, msg_seq, recv_count >>

\* WorkerProcess::initialize -> IPCManager::initialize(false)
HInitializeWorker(w) ==
    /\ procState[w] = "alive"
    /\ wpc[w] = "init"
    /\ LET r == initializeWorker(mgr[w], ObjExists("queue"), ObjExists("shm"),
                                 ObjExists("sem"))
       IN  /\ mgr' = [mgr EXCEPT ![w] = r.m]
           /\ wpc' = [wpc EXCEPT ![w] = IF r.ok THEN "run" ELSE "failed"]
           /\ ret' = [call |-> "attach", ok |-> r.ok, val |-> 0]
    /\ UNCHANGED << lifeVars, pc, initialized_, ipc_exists, shm_workers,
                    shutdown_flag, msg_queue, procState, sem, semadj,
                    reload_flag, stats, leftover, op, msg_seq, recv_count >>

\* pid of a worker that is not followed individually
Background == 101

\* locking operations a process calls besides those tied to fork and
\* waitpid of a followed worker: the master those of master_process.cpp
\* (for the worker Background), an attached worker a read of the table and
\* a write of the statistics
CallSet(p) ==
    { [name |-> n, pid |-> IF n \in {"addWorkerProcess", "removeWorkerProcess",
                                     "updateWorkerStatus"} THEN Background ELSE 0,
       arg |-> IF n = "updateWorkerStatus" THEN "RUNNING" ELSE 1,
       phase |-> "call", res |-> FALSE] :
         n \in IF p = Master THEN ReadOps \cup WriteOps
               ELSE {"getWorkerProcesses", "updateStatistics"} }

\* a process enters one of the locking operations
HCall(p, o) ==
    /\ CanCall(p)
    /\ o.name = "addWorkerProcess" => FirstIndex(shm_workers, o.pid) = 0
    /\ op' = [op EXCEPT ![p] = o]
    /\ UNCHANGED << lifeVars, pc, initialized_, ipc_exists, shm_workers,
                    shutdown_flag, msg_queue, procState, sem, semadj,
                    reload_flag, stats, leftover, mgr, wpc, ret, msg_seq,
                    recv_count >>

\* lockSharedMemory returns: true with the semaphore taken, or false (then
\* the operation returns at once); while the semaphore is 0 semop sleeps
HLock(p) ==
    /\ op[p].phase = "call"
    /\ LET s == SemOf(op[p].name)
           r == lockSharedMemory(Mgr(p), ObjExists("sem"), sem[s])
       IN  /\ r # "block"
           /\ IF r = "acquire"
              THEN /\ sem' = [sem EXCEPT ![s] = @ - 1]
                   /\ semadj' = [semadj EXCEPT ![p][s] = @ + 1]
                   /\ op' = [op EXCEPT ![p].phase = "cs"]
                   /\ UNCHANGED ret
              ELSE /\ op' = [op EXCEPT ![p] = IdleOp]
                   /\ ret' = [call |-> "lock", ok |-> FALSE, val |-> 0]
                   /\ UNCHANGED << sem, semadj >>
    /\ UNCHANGED << lifeVars, pc, initialized_, ipc_exists, shm_workers,
                    shutdown_flag, msg_queue, procState, reload_flag, stats,
                    leftover, mgr, wpc, msg_seq, recv_count >>

\* a signal arrives while semop sleeps: semop fails with EINTR
HLockInterrupted(p) ==
    /\ op[p].phase = "call"
    /\ lockSharedMemory(Mgr(p), ObjExists("sem"), sem[SemOf(op[p].name)]) = "block"
    /\ op' = [op EXCEPT ![p] = IdleOp]
    /\ ret' = [call |-> "lock", ok |-> FALSE, val |-> 0]
    /\ UNCHANGED << lifeVars, pc, initialized_, ipc_exists, shm_workers,
                    shutdown_flag, msg_queue, procState, sem, semadj,
                    reload_flag, stats, leftover, mgr, wpc, msg_seq,
                    recv_count >>

\* first half of the body of a writing operation
HWriteBegin(p) ==
    /\ op[p].phase = "cs"
    /\ op[p].name \in WriteOps
    /\ LET o == op[p]
           sd == Mgr(p).shared_data_
       IN  /\ shm_workers' =
                 IF ~sd THEN shm_workers
                 ELSE IF o.name = "removeWorkerProcess"
                      THEN removeShifted(shm_workers, o.pid)
                 ELSE IF o.name = "updateWorkerStatus"
                      THEN updateStatusOnly(shm_workers, o.pid, o.arg)
                 ELSE shm_workers
           /\ stats' = IF sd /\ o.name = "updateStatistics"
                       THEN [stats EXCEPT !.messages_processed = o.arg] ELSE stats
           /\ op' = [op EXCEPT ![p].phase = "mid",
                               ![p].res =
                                  IF o.name = "updateStatistics" THEN TRUE
                                  ELSE IF o.name = "addWorkerProcess"
                                       THEN sd /\ Len(shm_workers) < MAX_WORKER_PROCESSES
                                  ELSE sd /\ FirstIndex(shm_workers, o.pid) # 0]
    /\ UNCHANGED << lifeVars, pc, initialized_, ipc_exists, shutdown_flag,
                    msg_queue, procState, sem, semadj, reload_flag, leftover,
                    mgr, wpc, ret, msg_seq, recv_count >>

\* second half of the body of a writing operation
HWriteEnd(p) ==
    /\ op[p].phase = "mid"
    /\ LET o == op[p]
           sd == Mgr(p).shared_data_
       IN  /\ shm_workers' =
                 IF ~sd THEN shm_workers
                 ELSE IF o.name = "addWorkerProcess"
                      THEN addWorkerProcess(shm_workers, o.pid, o.arg, now)
                 ELSE IF o.name = "removeWorkerProcess" /\ o.res
                      THEN SubSeq(shm_workers, 1, Len(shm_workers) - 1)
                 ELSE IF o.name = "updateWorkerStatus" /\ o.res
                      THEN [shm_workers EXCEPT
                              ![FirstIndex(shm_workers, o.pid)].last_heartbeat = now]
                 ELSE shm_workers
           /\ stats' = IF sd /\ o.name = "updateStatistics"
                       THEN [stats EXCEPT !.errors = o.arg] ELSE stats
           /\ op' = [op EXCEPT ![p].phase = "done"]
    /\ UNCHANGED << lifeVars, pc, initialized_, ipc_exists, shutdown_flag,
                    msg_queue, procState, sem, semadj, reload_flag, leftover,
                    mgr, wpc, ret, msg_seq, recv_count >>

\* body of a reading operation: copy the statistics or the records
HRead(p) ==
    /\ op[p].phase = "cs"
    /\ op[p].name \in ReadOps
    /\ op' = [op EXCEPT ![p].phase = "done", ![p].res = TRUE]
    /\ UNCHANGED << lifeVars, pc, initialized_, ipc_exists, shm_workers,
                    shutdown_flag, msg_queue, procState, sem, semadj,
                    reload_flag, stats, leftover, mgr, wpc, ret, msg_seq,
                    recv_count >>

\* unlockSharedMemory, then the operation returns
HUnlock(p) ==
    /\ op[p].phase = "done"
    /\ LET s == SemOf(op[p].name)
           d == unlockSharedMemory(Mgr(p), ObjExists("sem"))
       IN  /\ sem' = [sem EXCEPT ![s] = @ + d]
           /\ semadj' = [semadj EXCEPT ![p][s] = @ - d]
    /\ ret' = [call |-> "lock", ok |-> op[p].res, val |-> 0]
    /\ op' = [op EXCEPT ![p] = IdleOp]
    /\ UNCHANGED << lifeVars, pc, initialized_, ipc_exists, shm_workers,
                    shutdown_flag, msg_queue, procState, reload_flag, stats,
                    leftover, mgr, wpc, msg_seq, recv_count >>

\* sendHeartbeat / sendStatusUpdate / sendErrorReport / sendStatistics
HSend(w, t) ==
    /\ CanCall(w)
    /\ msg_seq <= MaxMsgs
    /\ LET r == sendMessage(Mgr(w), msg_queue,
                            [type |-> t, sender_pid |-> w, id |-> msg_seq])
       IN  /\ msg_queue' = r.q
           /\ msg_seq' = IF r.ok THEN msg_seq + 1 ELSE msg_seq
           /\ ret' = [call |-> "send", ok |-> r.ok, val |-> 0]
    /\ UNCHANGED << lifeVars, pc, initialized_, ipc_exists, shm_workers,
                    shutdown_flag, procState, sem, semadj, reload_flag, stats,
                    leftover, mgr, wpc, op, recv_count >>

\* receiveMessage(message, type, false)
HReceive(p, type) ==
    /\ CanCall(p)
    /\ LET r == receiveMessage(Mgr(p), msg_queue, type)
       IN  /\ msg_queue' = r.q
           /\ ret' = [call |-> "receive", ok |-> r.ok, val |-> r.msg.id]
           /\ recv_count' = IF r.ok THEN [recv_count EXCEPT ![r.msg.id] = @ + 1]
                            ELSE recv_count
    /\ UNCHANGED << lifeVars, pc, initialized_, ipc_exists, shm_workers,
                    shutdown_flag, procState, sem, semadj, reload_flag, stats,
                    leftover, mgr, wpc, op, msg_seq >>

\* MasterProcess::stop -> setShutdownFlag(true): no lock is taken
HSetShutdownFlag ==
    /\ CanCall(Master)
    /\ shutdown_flag' = setShutdownFlag(MasterManager.shared_data_,
                                        shutdown_flag, TRUE)
    /\ UNCHANGED << lifeVars, pc, initialized_, ipc_exists, shm_workers,
                    msg_queue, procState, sem, semadj, reload_flag, stats,
                    leftover, mgr, wpc, op, ret, msg_seq, recv_count >>

\* MasterProcess::reloadConfig -> setReloadFlag(true): no lock is taken
HSetReloadFlag ==
    /\ CanCall(Master)
    /\ reload_flag' = IF MasterManager.shared_data_ THEN TRUE ELSE reload_flag
    /\ UNCHANGED << lifeVars, pc, initialized_, ipc_exists, shm_workers,
                    shutdown_flag, msg_queue, procState, sem, semadj, stats,
                    leftover, mgr, wpc, op, ret, msg_seq, recv_count >>

\* WorkerProcess::mainLoop -> getShutdownFlag(): no lock is taken
HGetShutdownFlag(w) ==
    /\ CanCall(w)
    /\ wpc[w] = "run"
    /\ ret' = [call |-> "flag", ok |-> IF mgr[w].shared_data_ THEN shutdown_flag ELSE FALSE,
                val |-> 0]
    /\ UNCHANGED << lifeVars, pc, initialized_, ipc_exists, shm_workers,
                    shutdown_flag, msg_queue, procState, sem, semadj,
                    reload_flag, stats, leftover, mgr, wpc, op, msg_seq,
                    recv_count >>

\* the worker leaves through exit(): ~IPCManager -> cleanup()
HWorkerExit(w) ==
    /\ CanCall(w)
    /\ LET r == cleanup(mgr[w])
       IN  /\ mgr' = [mgr EXCEPT ![w] = r.m]
           /\ ipc_exists' = IF r.removes THEN FALSE ELSE ipc_exists
           /\ msg_queue' = IF r.removes THEN << >> ELSE msg_queue
           /\ semadj' = IF r.removes
                        THEN [p \in Procs |-> [x \in SemIndex |-> 0]] ELSE semadj
    /\ procState' = [procState EXCEPT ![w] = "zombie"]
    /\ wpc' = [wpc EXCEPT ![w] = "dead"]
    /\ UNCHANGED << lifeVars, pc, initialized_, shm_workers, shutdown_flag,
                    sem, reload_flag, stats, leftover, op, ret, msg_seq,
                    recv_count >>

\* the worker is killed (SIGKILL, crash) wherever it is: no destructor runs,
\* the kernel applies its SEM_UNDO adjustments
HWorkerKill(w) ==
    /\ procState[w] = "alive"
    /\ procState' = [procState EXCEPT ![w] = "zombie"]
    /\ wpc' = [wpc EXCEPT ![w] = "dead"]
    /\ op' = [op EXCEPT ![w] = IdleOp]
    /\ sem' = [s \in SemIndex |-> sem[s] + semadj[w][s]]
    /\ semadj' = [semadj EXCEPT ![w] = [s \in SemIndex |-> 0]]
    /\ UNCHANGED << lifeVars, pc, initialized_, ipc_exists, shm_workers,
                    shutdown_flag, msg_queue, reload_flag, stats, leftover,
                    mgr, ret, msg_seq, recv_count >>

\* handleDeadWorker: waitpid returned w; removeWorkerProcess(w) follows
HReap(w) ==
    /\ CanCall(Master)
    /\ procState[w] = "zombie"
    /\ procState' = [procState EXCEPT ![w] = "reaped"]
    /\ op' = [op EXCEPT ![Master] =
                [name |-> "removeWorkerProcess", pid |-> w, arg |-> 0,
                 phase |-> "call", res |-> FALSE]]
    /\ UNCHANGED << lifeVars, pc, initialized_, ipc_exists, shm_workers,
                    shutdown_flag, msg_queue, sem, semadj, reload_flag, stats,
                    leftover, mgr, wpc, ret, msg_seq, recv_count >>

\* MasterProcess::cleanup -> IPCManager::cleanup() in the master
HCleanup ==
    /\ CanCall(Master)
    /\ LET r == cleanup(MasterManager)
       IN  /\ initialized_' = r.m.initialized_
           /\ ipc_exists' = IF r.removes THEN FALSE ELSE ipc_exists
           /\ msg_queue' = IF r.removes THEN << >> ELSE msg_queue
           /\ semadj' = IF r.removes
                        THEN [p \in Procs |-> [x \in SemIndex |-> 0]] ELSE semadj
    /\ pc' = "exited"
    /\ UNCHANGED << lifeVars, shm_workers, shutdown_flag, procState, sem,
                    reload_flag, stats, leftover, mgr, wpc, op, ret, msg_seq,
                    recv_count >>

\* steps of a worker on the substrate between fork and exit; a worker
\* whose attach failed still calls send, receive and the locking operations
WorkerStep(w) ==
    \/ HInitializeWorker(w)
    \/ \E o \in CallSet(w) : wpc[w] = "failed" /\ HCall(w, o)
    \/ HLock(w)
    \/ wpc[w] = "failed" /\ HSend(w, "HEARTBEAT")
    \/ wpc[w] = "failed" /\ HReceive(w, ANY)
    \/ HWorkerExit(w)
    \/ HWorkerKill(w)

IpcMasterStep ==
    \/ HInitializeMaster
    \/ \E w \in Slots : HFork(w)
    \/ HLock(Master)
    \/ HWriteBegin(Master)
    \/ HWriteEnd(Master)
    \/ HUnlock(Master)
    \/ \E w \in Slots : HReap(w)
    \/ HCleanup

IpcNext ==
    \/ IpcMasterStep
    \/ \E w \in Slots : WorkerStep(w)

\* creation, attach and cleanup of the substrate
IpcSpec == IpcInit /\ [][IpcNext]_vars

\* records of the followed workers, as createWorkerProcess added them
WorkersTable ==
    [w \in Slots |-> [pid |-> w, worker_id |-> w, status |-> "STARTING",
                      last_heartbeat |-> 0]]

\* a process table filled by MAX_WORKER_PROCESSES workers created before the
\* followed ones
BackgroundPool ==
    [i \in 1..MAX_WORKER_PROCESSES |->
        [pid |-> 200 + i, worker_id |-> 200 + i, status |-> "STARTING",
         last_heartbeat |-> 0]]

\* IPCManager fields of a worker after initializeWorker returned true
AttachedManager ==
    [is_master_ |-> FALSE, initialized_ |-> TRUE, msg_queue_id_ |-> TRUE,
     sem_id_ |-> TRUE, shared_data_ |-> TRUE]

\* the master has created the substrate and forked the followed workers,
\* and each of them has attached and entered its main loop
Attached ==
    /\ AuxInit
    /\ pc = "serve"
    /\ running_ = FALSE
    /\ g_shutdown_requested = 0
    /\ g_child_exited = 0
    /\ workers_ = << >>
    /\ spawn_i = 0
    /\ wait_time = 0
    /\ now = 0
    /\ slotOf = [p \in Pids |-> 0]
    /\ next_pid = 1
    /\ sigterm = {}
    /\ killCount = [p \in Pids |-> 0]
    /\ windowReaped = {}
    /\ windowAllExited = FALSE
    /\ gracefulAllAlive = FALSE
    /\ procState = [p \in Pids |-> IF p \in Slots THEN "alive" ELSE "none"]
    /\ initialized_ = TRUE
    /\ ipc_exists = TRUE
    /\ leftover = {}
    /\ shutdown_flag = FALSE
    /\ reload_flag = FALSE
    /\ stats = FreshStats
    /\ msg_queue = << >>
    /\ sem = [s \in SemIndex |-> 1]
    /\ semadj = [p \in Procs |-> [s \in SemIndex |-> 0]]
    /\ mgr = [w \in Slots |-> AttachedManager]
    /\ wpc = [w \in Slots |-> "run"]
    /\ op = [p \in Procs |-> IdleOp]
    /\ ret = NoRet
    /\ msg_seq = 1
    /\ recv_count = [i \in 1..MaxMsgs |-> 0]

LockInit == Attached /\ RtInit /\ TblIdle /\ shm_workers \in {WorkersTable, BackgroundPool}

LockNext ==
    \/ \E p \in Procs : \E o \in CallSet(p) : HCall(p, o)
    \/ \E p \in Procs : HLock(p)
    \/ \E p \in Procs : HLockInterrupted(p)
    \/ \E p \in Procs : HWriteBegin(p)
    \/ \E p \in Procs : HWriteEnd(p)
    \/ \E p \in Procs : HRead(p)
    \/ \E p \in Procs : HUnlock(p)
    \/ HSetShutdownFlag
    \/ HSetReloadFlag
    \/ \E w \in Slots : HGetShutdownFlag(w)
    \/ \E w \in Slots : HWorkerKill(w)

\* the locking operations called concurrently by the attached processes
LockSpec == LockInit /\ [][LockNext]_vars

QueueInit == Attached /\ RtInit /\ TblIdle /\ shm_workers = WorkersTable

QueueNext ==
    \/ \E w \in Slots : \E t \in MsgTypes : HSend(w, t)
    \/ \E p \in Procs : \E t \in MsgTypes \cup {ANY} : HReceive(p, t)

\* the message queue used concurrently by the attached processes
QueueSpec == QueueInit /\ [][QueueNext]_vars

(* ---------------------------------------------------------------------- *)
(* The message handling of the master: one iteration of the loop of       *)
(* processIPCMessages for a message that receiveMessage has returned,     *)
(* whatever worker has sent it.                                            *)
(* ---------------------------------------------------------------------- *)
\* ProcessStatus, and ProcessStatus::ERROR that WorkerProcess reports
ProcessStatus == {"STARTING", "RUNNING", "STOPPING", "STOPPED", "CRASHED", "ERROR"}

\* statistics_ of a worker that has processed n records and counted e errors
Snapshot(n, e) == [messages_processed |-> n, data_received |-> n,
                   data_sent |-> n, errors |-> e]

\* an IPCMessage as the send functions of WorkerProcess fill it
IPCMessage(type, pid, status, st) ==
    [type |-> type, sender_pid |-> pid, status |-> status, stats_data |-> st]

\* the messages a process with pid p can have sent
MessagesOf(p) ==
    {IPCMessage("HEARTBEAT", p, "NONE", FreshStats),
     IPCMessage("ERROR_REPORT", p, "NONE", FreshStats)}
    \cup { IPCMessage("STATUS_UPDATE", p, st, FreshStats) :
              st \in {"STARTING", "RUNNING", "STOPPING", "ERROR"} }
    \cup { IPCMessage("STATISTICS", p, "NONE", Snapshot(n, e)) :
              n \in 0..MaxCount, e \in 0..1 }

\* the process table with one record per worker, in any status
DrainTables ==
    { [w \in Slots |-> [pid |-> w, worker_id |-> w, status |-> st[w],
                        last_heartbeat |-> 0]] : st \in [Slots -> ProcessStatus] }

DrainInit == Attached /\ RtInit /\ TblIdle /\ shm_workers \in DrainTables

\* the switch of processIPCMessages for the message m
HandleMessage(m) ==
    /\ initialized_
    /\ shm_workers' = dispatchMessage(shm_workers, m, now)
    /\ stats' = IF m.type = "STATISTICS"
                THEN updateStatistics(stats, m.stats_data) ELSE stats
    /\ ret' = IF m.type \in {"HEARTBEAT", "STATUS_UPDATE"}
              THEN [call |-> "updateWorkerStatus",
                    ok |-> FirstIndex(shm_workers, m.sender_pid) # 0,
                    val |-> m.sender_pid]
              ELSE ret
    /\ UNCHANGED << lifeVars, pc, initialized_, ipc_exists, shutdown_flag,
                    msg_queue, procState, sem, semadj, reload_flag, leftover,
                    mgr, wpc, op, msg_seq, recv_count >>

\* time(nullptr) advances between two messages
DrainTick ==
    /\ now < MaxTime
    /\ now' = now + TickStep
    /\ UNCHANGED << running_, g_shutdown_requested, g_child_exited, workers_,
                    spawn_i, wait_time, slotOf, next_pid, sigterm, killCount,
                    windowReaped, windowAllExited, gracefulAllAlive,
                    pc, initialized_, ipc_exists, shm_workers, shutdown_flag,
                    msg_queue, procState, ipcVars, auxVars >>

DrainNext ==
    \/ \E p \in Pids : \E m \in MessagesOf(p) : HandleMessage(m)
    \/ DrainTick

\* the master handles the messages of the workers one after the other
DrainSpec == DrainInit /\ [][DrainNext]_vars


(* ---------------------------------------------------------------------- *)
(* The worker runtime: one worker process (WorkerProcess) with its main    *)
(* thread and the thread of the business unit (DefaultMarketSDK) that      *)
(* calls onMarketData.  The two threads share data_buffers_ and            *)
(* statistics_ without a lock, so a flush is two steps (hand the batch to  *)
(* the sink, clear the buffer) between which the other thread can run.     *)
(* Heartbeat and statistics messages carry no state of the worker and are  *)
(* left to the queue specification.                                        *)
(* ---------------------------------------------------------------------- *)
\* WorkerProcess::sendStatusUpdate(status): the statuses reported so far
sendStatusUpdate(rep, status) == rep \cup {status}

\* DefaultMarketSDK::connect (ok: the server accepted): the connection
\* callback is called with CONNECTING and then with the final status, the
\* error callback before it on failure; the callbacks are
\* WorkerProcess::onConnectionStatusChanged and onSDKError
connect(c, rep, st, ok) ==
    IF c = "CONNECTED" THEN [conn |-> c, reported |-> rep, stats |-> st, ok |-> TRUE]
    ELSE IF ok
         THEN [conn |-> "CONNECTED",
               reported |-> sendStatusUpdate(rep, "RUNNING"),
               stats |-> st, ok |-> TRUE]
         ELSE [conn |-> "ERROR",
               reported |-> sendStatusUpdate(rep, "ERROR"),
               stats |-> [st EXCEPT !.errors = @ + 1], ok |-> FALSE]

\* DefaultMarketSDK::disconnect once its joins have returned
disconnect(c, rep) ==
    IF c = "DISCONNECTED" THEN [conn |-> c, reported |-> rep]
    ELSE [conn |-> "DISCONNECTED", reported |-> sendStatusUpdate(rep, "ERROR")]

\* DefaultMarketSDK::disconnect joins the data thread before it changes
\* connection_status_, and the thread runs while the status is CONNECTED
DisconnectReturns == t_pc = "idle" /\ ~(t_alive /\ conn = "CONNECTED")

\* faulty variant: the size of the buffer never triggers a flush
BatchFull_never(buf) == FALSE

\* onMarketData: it->second.size() >= config.market_data.batch_size
BatchFull(buf) == Len(buf) >= batch_size

\* mainLoop: now - last_flush >= flush_interval
FlushDue(t, last) == t - last >= flush_interval

\* faulty variant: a batch that the sink refused stays in the buffer
flushDataBuffer_retry(batch, st, ok) ==
    [stats |-> IF ok THEN [st EXCEPT !.data_sent = @ + Len(batch)]
               ELSE [st EXCEPT !.errors = @ + 1],
     clear |-> ok]

\* WorkerProcess::flushDataBuffer for a non-empty buffer (ok: result of
\* saveMarketDataBatch): the counters, and whether the buffer is cleared;
\* data_sent is counted in units of sizeof(MarketData)
flushDataBuffer(batch, st, ok) ==
    [stats |-> IF ok THEN [st EXCEPT !.data_sent = @ + Len(batch)]
               ELSE [st EXCEPT !.errors = @ + 1],
     clear |-> TRUE]

\* the sink is handed the batch
saveMarketDataBatch(log, batch) ==
    [r \in DOMAIN log |->
        IF \E i \in 1..Len(batch) : batch[i] = r THEN log[r] + 1 ELSE log[r]]

\* the message that makes a worker leave its loop
ShutdownMessage == [type |-> "SHUTDOWN", sender_pid |-> 0]

\* the variables of the other specifications, which no step of the worker
\* runtime moves
workerFrame ==
    << running_, g_shutdown_requested, g_child_exited, workers_, spawn_i,
       wait_time, slotOf, next_pid, sigterm, killCount, windowReaped,
       windowAllExited, gracefulAllAlive, now, pc, initialized_, ipc_exists,
       shm_workers, procState, ipcVars, extVars, tblVars >>

\* the master has forked the worker (or it was started by main()) and the
\* worker is about to call WorkerProcess::initialize
WorkerInit ==
    /\ Attached
    /\ shm_workers = WorkersTable
    /\ w_entry \in {"fork", "main"}
    /\ w_pc = "init"
    /\ RtIdle
    /\ TblIdle

\* WorkerProcess::initialize (ok: attach, database, SDK and signal handlers
\* succeeded); execWorkerProcess / runWorkerProcess leave on failure
WInitialize(ok) ==
    /\ w_pc = "init"
    /\ statistics_' = FreshStats
    /\ data_buffers_' = << >>
    /\ w_pc' = IF ok THEN "run" ELSE "returned"
    /\ UNCHANGED << workerFrame,
                    w_entry, w_running, w_shutdown_requested, conn,
                    t_alive, t_pc, sunk, next_rec, reported, left_by,
                    reconnect_failures, steady_now, iter_now, last_flush,
                    m_flush, t_flush, flush_ret, shutdown_flag, msg_queue >>

\* WorkerProcess::run up to connectToMarketData
WRun ==
    /\ w_pc = "run"
    /\ w_running' = TRUE
    /\ reported' = sendStatusUpdate(reported, "STARTING")
    /\ w_pc' = "connect"
    /\ UNCHANGED << workerFrame,
                    w_entry, w_shutdown_requested, conn, t_alive, t_pc,
                    data_buffers_, statistics_, sunk, next_rec, left_by,
                    reconnect_failures, steady_now, iter_now, last_flush,
                    m_flush, t_flush, flush_ret, shutdown_flag, msg_queue >>

\* run: connectToMarketData(); on failure running_ = false and run returns
WConnectToMarketData(ok) ==
    /\ w_pc = "connect"
    /\ ok \/ statistics_.errors < MaxErrors
    /\ LET c == connect(conn, reported, statistics_, ok) IN
       /\ conn' = c.conn
       /\ reported' = c.reported
       /\ statistics_' = c.stats
       /\ w_running' = c.ok
       /\ w_pc' = IF c.ok THEN "subscribe" ELSE "returned"
    /\ UNCHANGED << workerFrame,
                    w_entry, w_shutdown_requested, t_alive, t_pc,
                    data_buffers_, sunk, next_rec, left_by,
                    reconnect_failures, steady_now, iter_now, last_flush,
                    m_flush, t_flush, flush_ret, shutdown_flag, msg_queue >>

\* run: subscribeMarketData() (DefaultMarketSDK::subscribe fails unless
\* CONNECTED, else starts the data thread), then sendStatusUpdate(RUNNING)
WSubscribeMarketData ==
    /\ w_pc = "subscribe"
    /\ IF conn = "CONNECTED"
       THEN /\ t_alive' = TRUE
            /\ reported' = sendStatusUpdate(reported, "RUNNING")
            /\ iter_now' = steady_now
            /\ last_flush' = steady_now
            /\ w_pc' = "loop"
            /\ UNCHANGED w_running
       ELSE /\ w_running' = FALSE
            /\ w_pc' = "returned"
            /\ UNCHANGED << t_alive, reported, iter_now, last_flush >>
    /\ UNCHANGED << workerFrame,
                    w_entry, w_shutdown_requested, conn, t_pc,
                    data_buffers_, statistics_, sunk, next_rec, left_by,
                    reconnect_failures, steady_now, m_flush, t_flush,
                    flush_ret, shutdown_flag, msg_queue >>

\* mainLoop: while (running_) { now = ...; if (g_shutdown_requested) break;
\* ... if (getShutdownFlag()) break;
WLoopTop ==
    /\ w_pc = "loop"
    /\ IF ~w_running
       THEN /\ w_pc' = "returned"
            /\ UNCHANGED << iter_now, left_by >>
       ELSE /\ iter_now' = steady_now
            /\ IF w_shutdown_requested = 1
               THEN w_pc' = "returned" /\ left_by' = "signal"
               ELSE IF shutdown_flag
                    THEN w_pc' = "returned" /\ left_by' = "flag"
                    ELSE w_pc' = "msgs" /\ UNCHANGED left_by
    /\ UNCHANGED << workerFrame,
                    w_entry, w_running, w_shutdown_requested, conn,
                    t_alive, t_pc, data_buffers_, statistics_, sunk,
                    next_rec, reported, reconnect_failures, steady_now,
                    last_flush, m_flush, t_flush, flush_ret, shutdown_flag,
                    msg_queue >>

\* WorkerProcess::processIPCMessages: drain the queue; SHUTDOWN clears running_
WProcessIPCMessages ==
    /\ w_pc = "msgs"
    /\ msg_queue' = << >>
    /\ IF \E i \in 1..Len(msg_queue) : msg_queue[i].type = "SHUTDOWN"
       THEN w_running' = FALSE /\ left_by' = "message"
       ELSE UNCHANGED << w_running, left_by >>
    /\ w_pc' = "flush"
    /\ UNCHANGED << workerFrame,
                    w_entry, w_shutdown_requested, conn, t_alive, t_pc,
                    data_buffers_, statistics_, sunk, next_rec, reported,
                    reconnect_failures, steady_now, iter_now, last_flush,
                    m_flush, t_flush, flush_ret, shutdown_flag >>

\* mainLoop: if (now - last_flush >= flush_interval) { flushDataBuffers(); ...
WFlushCheck ==
    /\ w_pc = "flush"
    /\ IF FlushDue(iter_now, last_flush)
       THEN w_pc' = "fl" /\ flush_ret' = "loop"
       ELSE w_pc' = "conn" /\ UNCHANGED flush_ret
    /\ UNCHANGED << workerFrame,
                    w_entry, w_running, w_shutdown_requested, conn,
                    t_alive, t_pc, data_buffers_, statistics_, sunk,
                    next_rec, reported, left_by, reconnect_failures,
                    steady_now, iter_now, last_flush, m_flush, t_flush,
                    shutdown_flag, msg_queue >>

\* flushDataBuffers: the buffer is skipped when empty; after the call the
\* main loop sets last_flush = now and stop() goes on to cleanup()
WFlushDataBuffers ==
    /\ w_pc = "fl"
    /\ IF data_buffers_ # << >>
       THEN w_pc' = "fl_save" /\ UNCHANGED last_flush
       ELSE IF flush_ret = "loop"
            THEN w_pc' = "conn" /\ last_flush' = iter_now
            ELSE w_pc' = "cleanup" /\ UNCHANGED last_flush
    /\ UNCHANGED << workerFrame,
                    w_entry, w_running, w_shutdown_requested, conn,
                    t_alive, t_pc, data_buffers_, statistics_, sunk,
                    next_rec, reported, left_by, reconnect_failures,
                    steady_now, iter_now, m_flush, t_flush, flush_ret,
                    shutdown_flag, msg_queue >>

\* flushDataBuffer in the main thread: saveMarketDataBatch and the counters
WFlushSave(ok) ==
    /\ w_pc = "fl_save"
    /\ ok \/ statistics_.errors < MaxErrors
    /\ IF data_buffers_ = << >>
       THEN /\ w_pc' = "fl"
            /\ UNCHANGED << sunk, statistics_, m_flush >>
       ELSE /\ sunk' = saveMarketDataBatch(sunk, data_buffers_)
            /\ statistics_' = flushDataBuffer(data_buffers_, statistics_, ok).stats
            /\ m_flush' = [batch |-> data_buffers_, ok |-> ok]
            /\ w_pc' = "fl_clear"
    /\ UNCHANGED << workerFrame,
                    w_entry, w_running, w_shutdown_requested, conn,
                    t_alive, t_pc, data_buffers_, next_rec, reported,
                    left_by, reconnect_failures, steady_now, iter_now,
                    last_flush, t_flush, flush_ret, shutdown_flag,
                    msg_queue >>

\* flushDataBuffer in the main thread: it->second.clear()
WFlushClear ==
    /\ w_pc = "fl_clear"
    /\ data_buffers_' =
          IF flushDataBuffer(m_flush.batch, statistics_, m_flush.ok).clear
          THEN << >> ELSE data_buffers_
    /\ m_flush' = NoFlush
    /\ w_pc' = IF flush_ret = "loop" THEN "fl_done" ELSE "cleanup"
    /\ UNCHANGED << workerFrame,
                    w_entry, w_running, w_shutdown_requested, conn,
                    t_alive, t_pc, statistics_, sunk, next_rec, reported,
                    left_by, reconnect_failures, steady_now, iter_now,
                    last_flush, t_flush, flush_ret, shutdown_flag,
                    msg_queue >>

\* mainLoop: last_flush = now
WFlushDone ==
    /\ w_pc = "fl_done"
    /\ last_flush' = iter_now
    /\ w_pc' = "conn"
    /\ UNCHANGED << workerFrame,
                    w_entry, w_running, w_shutdown_requested, conn,
                    t_alive, t_pc, data_buffers_, statistics_, sunk,
                    next_rec, reported, left_by, reconnect_failures,
                    steady_now, iter_now, m_flush, t_flush, flush_ret,
                    shutdown_flag, msg_queue >>

\* mainLoop: if the SDK is not CONNECTED, handleReconnection(): disconnect,
\* sleep, connectToMarketData() && subscribeMarketData(), else
\* sendErrorReport; the loop goes on either way.  The code keeps no count
\* of the attempts; reconnect_failures follows the consecutive failures up
\* to one past max_reconnect_attempts
WCheckConnection(ok) ==
    /\ w_pc = "conn"
    /\ IF conn = "CONNECTED"
       THEN UNCHANGED << conn, reported, statistics_, t_alive, reconnect_failures >>
       ELSE /\ DisconnectReturns
            /\ ok \/ statistics_.errors < MaxErrors
            /\ reconnect_failures <= max_reconnect_attempts
            /\ LET d == disconnect(conn, reported)
                   c == connect(d.conn, d.reported, statistics_, ok)
               IN  /\ conn' = c.conn
                   /\ reported' = c.reported
                   /\ statistics_' = c.stats
                   /\ t_alive' = c.ok
                   /\ reconnect_failures' = IF c.ok THEN 0 ELSE reconnect_failures + 1
    /\ w_pc' = "loop"
    /\ UNCHANGED << workerFrame,
                    w_entry, w_running, w_shutdown_requested, t_pc,
                    data_buffers_, sunk, next_rec, left_by, steady_now,
                    iter_now, last_flush, m_flush, t_flush, flush_ret,
                    shutdown_flag, msg_queue >>

\* execWorkerProcess: exit(0) / exit(1) after run() or a failed initialize();
\* exit() does not destroy the WorkerProcess object, so stop() is not called
WExit ==
    /\ w_pc = "returned"
    /\ w_entry = "fork"
    /\ w_pc' = "exited"
    /\ UNCHANGED << workerFrame,
                    w_entry, w_running, w_shutdown_requested, conn,
                    t_alive, t_pc, data_buffers_, statistics_, sunk,
                    next_rec, reported, left_by, reconnect_failures,
                    steady_now, iter_now, last_flush, m_flush, t_flush,
                    flush_ret, shutdown_flag, msg_queue >>

\* runWorkerProcess returns: ~WorkerProcess -> stop(): no-op unless running_,
\* else running_ = false and sendStatusUpdate(STOPPING)
WStop ==
    /\ w_pc = "returned"
    /\ w_entry = "main"
    /\ IF w_running
       THEN /\ w_running' = FALSE
            /\ reported' = sendStatusUpdate(reported, "STOPPING")
            /\ w_pc' = "stop_disc"
       ELSE /\ w_pc' = "dtor_sdk"
            /\ UNCHANGED << w_running, reported >>
    /\ UNCHANGED << workerFrame,
                    w_entry, w_shutdown_requested, conn, t_alive, t_pc,
                    data_buffers_, statistics_, sunk, next_rec, left_by,
                    reconnect_failures, steady_now, iter_now, last_flush,
                    m_flush, t_flush, flush_ret, shutdown_flag, msg_queue >>

\* stop(): sdk_->disconnect(), then flushDataBuffers()
WStopDisconnect ==
    /\ w_pc = "stop_disc"
    /\ DisconnectReturns
    /\ LET d == disconnect(conn, reported) IN
       /\ conn' = d.conn
       /\ reported' = d.reported
    /\ t_alive' = FALSE
    /\ flush_ret' = "stop"
    /\ w_pc' = "fl"
    /\ UNCHANGED << workerFrame,
                    w_entry, w_running, w_shutdown_requested, t_pc,
                    data_buffers_, statistics_, sunk, next_rec, left_by,
                    reconnect_failures, steady_now, iter_now, last_flush,
                    m_flush, t_flush, shutdown_flag, msg_queue >>

\* WorkerProcess::cleanup: sdk_ and db_manager_ released, data_buffers_.clear()
WCleanup ==
    /\ w_pc = "cleanup"
    /\ data_buffers_' = << >>
    /\ w_pc' = "exited"
    /\ UNCHANGED << workerFrame,
                    w_entry, w_running, w_shutdown_requested, conn,
                    t_alive, t_pc, statistics_, sunk, next_rec, reported,
                    left_by, reconnect_failures, steady_now, iter_now,
                    last_flush, m_flush, t_flush, flush_ret, shutdown_flag,
                    msg_queue >>

\* ~WorkerProcess after a stop() that did nothing: the members are destroyed,
\* ~DefaultMarketSDK calls disconnect()
WDestroySdk ==
    /\ w_pc = "dtor_sdk"
    /\ DisconnectReturns
    /\ conn' = "DISCONNECTED"
    /\ t_alive' = FALSE
    /\ w_pc' = "exited"
    /\ UNCHANGED << workerFrame,
                    w_entry, w_running, w_shutdown_requested, t_pc,
                    data_buffers_, statistics_, sunk, next_rec, reported,
                    left_by, reconnect_failures, steady_now, iter_now,
                    last_flush, m_flush, t_flush, flush_ret, shutdown_flag,
                    msg_queue >>

\* the data thread produces a record: WorkerProcess::onMarketData counts it
\* and appends it to the buffer; a full buffer is flushed at once
TOnMarketData ==
    /\ t_alive
    /\ t_pc = "idle"
    /\ w_pc # "exited"
    /\ conn = "CONNECTED"
    /\ next_rec <= MaxRecords
    /\ statistics_' = [statistics_ EXCEPT !.messages_processed = @ + 1,
                                           !.data_received = @ + 1]
    /\ data_buffers_' = Append(data_buffers_, next_rec)
    /\ next_rec' = next_rec + 1
    /\ t_pc' = IF BatchFull(data_buffers_') THEN "fl_save" ELSE "idle"
    /\ UNCHANGED << workerFrame,
                    w_entry, w_pc, w_running, w_shutdown_requested, conn,
                    t_alive, sunk, reported, left_by, reconnect_failures,
                    steady_now, iter_now, last_flush, m_flush, t_flush,
                    flush_ret, shutdown_flag, msg_queue >>

\* flushDataBuffer in the data thread: saveMarketDataBatch and the counters
TFlushSave(ok) ==
    /\ t_pc = "fl_save"
    /\ w_pc # "exited"
    /\ ok \/ statistics_.errors < MaxErrors
    /\ IF data_buffers_ = << >>
       THEN /\ t_pc' = "idle"
            /\ UNCHANGED << sunk, statistics_, t_flush >>
       ELSE /\ sunk' = saveMarketDataBatch(sunk, data_buffers_)
            /\ statistics_' = flushDataBuffer(data_buffers_, statistics_, ok).stats
            /\ t_flush' = [batch |-> data_buffers_, ok |-> ok]
            /\ t_pc' = "fl_clear"
    /\ UNCHANGED << workerFrame,
                    w_entry, w_pc, w_running, w_shutdown_requested, conn,
                    t_alive, data_buffers_, next_rec, reported, left_by,
                    reconnect_failures, steady_now, iter_now, last_flush,
                    m_flush, flush_ret, shutdown_flag, msg_queue >>

\* flushDataBuffer in the data thread: it->second.clear()
TFlushClear ==
    /\ t_pc = "fl_clear"
    /\ w_pc # "exited"
    /\ data_buffers_' =
          IF flushDataBuffer(t_flush.batch, statistics_, t_flush.ok).clear
          THEN << >> ELSE data_buffers_
    /\ t_flush' = NoFlush
    /\ t_pc' = "idle"
    /\ UNCHANGED << workerFrame,
                    w_entry, w_pc, w_running, w_shutdown_requested, conn,
                    t_alive, statistics_, sunk, next_rec, reported,
                    left_by, reconnect_failures, steady_now, iter_now,
                    last_flush, m_flush, flush_ret, shutdown_flag,
                    msg_queue >>

\* SIGTERM / SIGINT delivered to the worker: worker_signal_handler
WSigterm ==
    /\ w_pc \notin {"init", "exited"}
    /\ w_shutdown_requested = 0
    /\ w_shutdown_requested' = 1
    /\ UNCHANGED << workerFrame,
                    w_entry, w_pc, w_running, conn, t_alive, t_pc,
                    data_buffers_, statistics_, sunk, next_rec, reported,
                    left_by, reconnect_failures, steady_now, iter_now,
                    last_flush, m_flush, t_flush, flush_ret, shutdown_flag,
                    msg_queue >>

\* the master sets the shared shutdown flag (MasterProcess::stop)
WSetShutdownFlag ==
    /\ ~shutdown_flag
    /\ shutdown_flag' = TRUE
    /\ UNCHANGED << workerFrame,
                    w_entry, w_pc, w_running, w_shutdown_requested, conn,
                    t_alive, t_pc, data_buffers_, statistics_, sunk,
                    next_rec, reported, left_by, reconnect_failures,
                    steady_now, iter_now, last_flush, m_flush, t_flush,
                    flush_ret, msg_queue >>

\* a SHUTDOWN message is put into the queue
WDeliverShutdown ==
    /\ w_pc # "exited"
    /\ msg_queue = << >>
    /\ left_by = "none"
    /\ msg_queue' = << ShutdownMessage >>
    /\ UNCHANGED << workerFrame,
                    w_entry, w_pc, w_running, w_shutdown_requested, conn,
                    t_alive, t_pc, data_buffers_, statistics_, sunk,
                    next_rec, reported, left_by, reconnect_failures,
                    steady_now, iter_now, last_flush, m_flush, t_flush,
                    flush_ret, shutdown_flag >>

\* the business unit loses its connection: getConnectionStatus() is no
\* longer CONNECTED
WConnectionLost ==
    /\ w_pc \notin {"init", "run", "connect", "exited"}
    /\ conn = "CONNECTED"
    /\ conn' = "ERROR"
    /\ UNCHANGED << workerFrame,
                    w_entry, w_pc, w_running, w_shutdown_requested,
                    t_alive, t_pc, data_buffers_, statistics_, sunk,
                    next_rec, reported, left_by, reconnect_failures,
                    steady_now, iter_now, last_flush, m_flush, t_flush,
                    flush_ret, shutdown_flag, msg_queue >>

\* the steady clock advances by one flush interval
WTick ==
    /\ w_pc # "exited"
    /\ steady_now < MaxSteady
    /\ steady_now' = steady_now + flush_interval
    /\ UNCHANGED << workerFrame,
                    w_entry, w_pc, w_running, w_shutdown_requested, conn,
                    t_alive, t_pc, data_buffers_, statistics_, sunk,
                    next_rec, reported, left_by, reconnect_failures,
                    iter_now, last_flush, m_flush, t_flush, flush_ret,
                    shutdown_flag, msg_queue >>

WorkerMainStep ==
    \/ \E ok \in BOOLEAN : WInitialize(ok)
    \/ WRun
    \/ \E ok \in BOOLEAN : WConnectToMarketData(ok)
    \/ WSubscribeMarketData
    \/ WLoopTop
    \/ WProcessIPCMessages
    \/ WFlushCheck
    \/ WFlushDataBuffers
    \/ \E ok \in BOOLEAN : WFlushSave(ok)
    \/ WFlushClear
    \/ WFlushDone
    \/ \E ok \in BOOLEAN : WCheckConnection(ok)
    \/ WExit
    \/ WStop
    \/ WStopDisconnect
    \/ WCleanup
    \/ WDestroySdk

DataThreadStep ==
    \/ TOnMarketData
    \/ \E ok \in BOOLEAN : TFlushSave(ok)
    \/ TFlushClear

WorkerNext ==
    \/ WorkerMainStep
    \/ DataThreadStep
    \/ WSigterm
    \/ WSetShutdownFlag
    \/ WDeliverShutdown
    \/ WConnectionLost
    \/ WTick

\* one worker process from WorkerProcess::initialize to its exit
WorkerSpec == WorkerInit /\ [][WorkerNext]_vars

(* ---------------------------------------------------------------------- *)
(* The process table as IPCManager keeps it in the segment: the array     *)
(* workers[] and the counter worker_count, with addWorkerProcess and      *)
(* removeWorkerProcess computed on them as the code does.  The calls are  *)
(* made one after the other (they run under SEM_WORKER_LIST).             *)
(* ---------------------------------------------------------------------- *)
\* faulty variant: the capacity is not tested
addWorkerProcessRaw_noLimit(arr, cnt, pid, worker_id) ==
    [workers |-> [arr EXCEPT ![cnt + 1] = [pid |-> pid, worker_id |-> worker_id]],
     worker_count |-> cnt + 1, success |-> TRUE]

\* IPCManager::addWorkerProcess on the array and the counter
addWorkerProcessRaw(arr, cnt, pid, worker_id) ==
    IF cnt < MAX_WORKER_PROCESSES
    THEN [workers |-> [arr EXCEPT ![cnt + 1] =
                          [pid |-> pid, worker_id |-> worker_id]],
          worker_count |-> cnt + 1, success |-> TRUE]
    ELSE [workers |-> arr, worker_count |-> cnt, success |-> FALSE]

\* faulty variant: the hole is filled with the last record
removeWorkerProcessRaw_swapLast(arr, cnt, pid) ==
    LET hit == { i \in 1..cnt : arr[i].pid = pid } IN
    IF hit = {} THEN [workers |-> arr, worker_count |-> cnt, success |-> FALSE]
    ELSE LET i == CHOOSE x \in hit : \A y \in hit : x <= y IN
         [workers |-> [arr EXCEPT ![i] = arr[cnt]],
          worker_count |-> cnt - 1, success |-> TRUE]

\* IPCManager::removeWorkerProcess on the array and the counter: the
\* records behind the first match move down by one, worker_count--
removeWorkerProcessRaw(arr, cnt, pid) ==
    LET hit == { i \in 1..cnt : arr[i].pid = pid } IN
    IF hit = {} THEN [workers |-> arr, worker_count |-> cnt, success |-> FALSE]
    ELSE LET i == CHOOSE x \in hit : \A y \in hit : x <= y IN
         [workers |-> [j \in DOMAIN arr |->
                          IF j >= i /\ j < cnt THEN arr[j + 1] ELSE arr[j]],
          worker_count |-> cnt - 1, success |-> TRUE]

\* the records in use, oldest first
Records(arr, cnt) == [i \in 1..cnt |-> arr[i]]

\* arrays whose first MaxFill records carry pids of followed workers (the
\* same pid may occur more than once) and whose other records carry pids
\* of workers that are not followed
TableArrays ==
    { [i \in 1..MAX_WORKER_PROCESSES |->
          [pid |-> IF i <= MaxFill THEN f[i] ELSE 200 + i, worker_id |-> i]] :
      f \in [1..MaxFill -> Slots] }

\* record counts at the start: nearly empty and nearly full tables
TableCounts == (0..MaxFill) \cup {MAX_WORKER_PROCESSES - 1, MAX_WORKER_PROCESSES}

\* pids removeWorkerProcess is called with: followed workers, the last
\* record of a full table, and a pid that has no record
RemovedPids == Slots \cup {200 + MAX_WORKER_PROCESSES, Background}

tableFrame ==
    << running_, g_shutdown_requested, g_child_exited, workers_, spawn_i,
       wait_time, slotOf, next_pid, sigterm, killCount, windowReaped,
       windowAllExited, gracefulAllAlive, now, pc, initialized_, ipc_exists,
       shm_workers, shutdown_flag, msg_queue, procState, ipcVars, extVars,
       rtVars >>

TableInit ==
    /\ Attached
    /\ RtInit
    /\ shm_workers = WorkersTable
    /\ tbl_workers \in TableArrays
    /\ tbl_count \in TableCounts
    /\ tbl_ret = NoTableCall
    /\ tbl_ops = 0

\* what a call returns when lockSharedMemory failed: nothing is touched
LockFailed(arr, cnt) == [workers |-> arr, worker_count |-> cnt, success |-> FALSE]

\* addWorkerProcess(pid, worker_id) is called; locked tells whether
\* lockSharedMemory(SEM_WORKER_LIST) succeeded
TAdd(pid, worker_id, locked) ==
    /\ tbl_ops < MaxTableOps
    /\ LET r == IF locked
                THEN addWorkerProcessRaw(tbl_workers, tbl_count, pid, worker_id)
                ELSE LockFailed(tbl_workers, tbl_count) IN
       /\ tbl_workers' = r.workers
       /\ tbl_count' = r.worker_count
       /\ tbl_ret' = [call |-> "add", ok |-> r.success, pid |-> pid,
                      locked |-> locked]
    /\ tbl_ops' = tbl_ops + 1
    /\ UNCHANGED tableFrame

\* removeWorkerProcess(pid) is called
TRemove(pid, locked) ==
    /\ tbl_ops < MaxTableOps
    /\ LET r == IF locked
                THEN removeWorkerProcessRaw(tbl_workers, tbl_count, pid)
                ELSE LockFailed(tbl_workers, tbl_count) IN
       /\ tbl_workers' = r.workers
       /\ tbl_count' = r.worker_count
       /\ tbl_ret' = [call |-> "remove", ok |-> r.success, pid |-> pid,
                      locked |-> locked]
    /\ tbl_ops' = tbl_ops + 1
    /\ UNCHANGED tableFrame

TableNext ==
    \/ \E pid \in Slots, locked \in BOOLEAN : TAdd(pid, 100 + tbl_ops, locked)
    \/ \E pid \in RemovedPids, locked \in BOOLEAN : TRemove(pid, locked)

\* calls of addWorkerProcess and removeWorkerProcess on tables of any fill
TableSpec == TableInit /\ [][TableNext]_vars

(* ------------------------------- claims -------------------------------- *)
Monitoring == pc \in MainLoopPcs /\ running_ /\ ~shutdown_flag
SlotHasLiveProcess(s) == s \in DOMAIN workers_ /\ procState[workers_[s].pid] = "alive"
SlotLostProcess(s) == s \in DOMAIN workers_ /\ procState[workers_[s].pid] # "alive"
\* the worker of the slot was reaped and the fork() of its replacement failed
ForkRefused(s) == s \in DOMAIN workers_ /\ procState[workers_[s].pid] = "reaped"
Stale(rec) == now - rec.last_heartbeat > HEARTBEAT_TIMEOUT

\* C1: whenever the worker of a slot has exited while the supervisor is in
\* its monitoring loop with no shutdown in progress, the worker is eventually
\* reaped and the slot has a live process again, unless a shutdown begins
\* first.  (A respawn whose fork() is refused by the OS is not held against
\* the property: it asks only that the dead worker is reaped and a respawn
\* attempted.)
C1_DeadWorkerIsRespawned ==
    \A s \in Slots :
        [](Monitoring /\ SlotLostProcess(s)
            => <>(SlotHasLiveProcess(s) \/ ForkRefused(s) \/ ~Monitoring))

\* C2: every respawn of a slot (its tracked pid changes) leaves the slot's
\* restart_count exactly one higher than before.
C2_RestartCountIncrements ==
    [][\A s \in Slots :
          (s \in DOMAIN workers_ /\ s \in DOMAIN workers_'
              /\ workers_'[s].pid # workers_[s].pid)
          => workers_'[s].restart_count = workers_[s].restart_count + 1]_vars

\* C3: while the substrate exists the process table holds exactly one record
\* per tracked worker, and no record or tracked entry is for a reaped pid.
C3_TableMatchesTracked ==
    ipc_exists =>
        /\ TablePids(shm_workers) = TrackedPids(workers_)
        /\ Len(shm_workers) = Cardinality(DOMAIN workers_)
        /\ \A p \in TablePids(shm_workers) : procState[p] # "reaped"

\* C4: the process table never holds two records with the same worker_id,
\* no slot has two live processes, and no pid is tracked under two slots.
C4_OneRecordPerSlot ==
    /\ \A i, j \in 1..Len(shm_workers) :
          shm_workers[i].worker_id = shm_workers[j].worker_id => i = j
    /\ \A s \in Slots :
          Cardinality({ p \in Pids : procState[p] = "alive" /\ slotOf[p] = s }) <= 1
    /\ \A s, t \in DOMAIN workers_ : workers_[s].pid = workers_[t].pid => s = t

\* C4 witness: a slot has been respawned and its new record is in the table
C4_Witness ==
    \E s \in DOMAIN workers_ :
        /\ workers_[s].pid > WorkerCount
        /\ \E i \in 1..Len(shm_workers) :
              shm_workers[i].pid = workers_[s].pid /\ shm_workers[i].worker_id = s

\* C5: once the shared shutdown flag is set no process is forked, and every
\* reaped worker is gone from the process table and from workers_.
C5_NoRespawnAfterShutdown ==
    [][shutdown_flag =>
          /\ next_pid' = next_pid
          /\ \A p \in Pids : procState'[p] = "alive" => procState[p] = "alive"
          /\ \A p \in Pids :
                (procState[p] = "zombie" /\ procState'[p] = "reaped")
                => /\ p \notin TrackedPids(workers_')
                   /\ p \notin TablePids(shm_workers')]_vars

\* C6: a requested shutdown always leads to the exit of the supervisor,
\* whatever the workers do.
C6_ShutdownTerminates == (g_shutdown_requested = 1) ~> (pc = "exited")

\* C6 witness: the graceful window has elapsed with a worker still alive
C6_Witness ==
    /\ pc = "gs_kill"
    /\ wait_time = max_wait_time
    /\ \E p \in TrackedPids(workers_) : procState[p] = "alive"

C8_ResponsiveShutdownIsClean ==
    (pc = "exited" /\ gracefulAllAlive /\ windowAllExited) =>
        /\ DOMAIN workers_ = {}
        /\ shm_workers = << >>
        /\ ~ipc_exists
        /\ \A p \in Pids : killCount[p] = 0

\* C9: when the substrate has been removed, every worker process that was
\* forked has exited and has been reaped.
C9_DestroyAfterAllReaped ==
    ~ipc_exists => \A p \in Pids : procState[p] \in {"none", "reaped"}

\* C10: a liveness sweep signals every record whose heartbeat is older than
\* HEARTBEAT_TIMEOUT and whose process is alive.
C10_SweepSignalsStaleWorkers ==
    [][(pc = "sweep" /\ pc' = "loop" /\ ~shutdown_flag) =>
          \A i \in 1..Len(shm_workers) :
              (Stale(shm_workers[i]) /\ procState[shm_workers[i].pid] = "alive")
              => shm_workers[i].pid \in sigterm']_vars

\* C10 witness: a sweep has signalled a live worker with a stale heartbeat
C10_Witness ==
    /\ pc = "loop"
    /\ ~shutdown_flag
    /\ \E i \in 1..Len(shm_workers) :
          /\ Stale(shm_workers[i])
          /\ procState[shm_workers[i].pid] = "alive"
          /\ shm_workers[i].pid \in sigterm

\* the process table holds a record of a live pid whose heartbeat timed out
StaleAlive(p) ==
    /\ procState[p] = "alive"
    /\ \E i \in 1..Len(shm_workers) :
          shm_workers[i].pid = p /\ Stale(shm_workers[i])

\* C11: a worker that is alive but whose heartbeat has timed out is, while
\* the supervisor keeps monitoring, eventually terminated (so that it can be
\* reaped and replaced) -- also when it does not react to SIGTERM -- unless
\* its heartbeat resumes or a shutdown begins first.
C11_UnresponsiveWorkerIsReplaced ==
    \A p \in Pids :
        [](Monitoring /\ StaleAlive(p)
            => <>(procState[p] # "alive" \/ ~StaleAlive(p) \/ ~Monitoring))

\* the process is between a successful lock and the unlock of semaphore s
InSection(p, s) ==
    op[p].phase \in {"cs", "mid", "done"} /\ SemOf(op[p].name) = s
\* the process currently holds a semaphore of the set
Holding(p) == \E s \in SemIndex : semadj[p][s] > 0

\* C12: for each semaphore at most one process is inside a section guarded
\* by it, and while one process is partway through a write of the table or
\* the statistics no other process is inside a section that reads them.
C12_MutualExclusion ==
    /\ \A s \in SemIndex :
          Cardinality({ p \in Procs : InSection(p, s) }) <= 1
    /\ \A p, q \in Procs :
          (p # q /\ op[q].phase = "mid" /\ op[p].name \in ReadOps
               /\ SemOf(op[p].name) = SemOf(op[q].name))
          => op[p].phase \notin {"cs", "done"}

\* C12 witness: a process is partway through a write while another process
\* has called a read on the same data and sleeps in lockSharedMemory
C12_Witness ==
    \E p, q \in Procs :
        /\ p # q
        /\ op[q].phase = "mid"
        /\ op[p].phase = "call"
        /\ op[p].name \in ReadOps
        /\ SemOf(op[p].name) = SemOf(op[q].name)
        /\ sem[SemOf(op[p].name)] = 0

\* C13: a process that is not inside a locking operation holds no
\* semaphore and every semaphore not held is back at 1, whichever path the
\* operation took; an operation whose lock acquisition failed has returned
\* false and has changed neither the shared data nor the semaphores.
C13_LockReleasedOnEveryPath ==
    /\ [](\A p \in Procs : op[p].phase = "idle" => ~Holding(p))
    /\ [](\A s \in SemIndex :
             (\A p \in Procs : ~InSection(p, s)) => sem[s] = 1)
    /\ [][\A p \in Procs :
             (HLockInterrupted(p) \/ (HLock(p) /\ op'[p].phase = "idle"))
             => /\ ret'.ok = FALSE
                /\ UNCHANGED << shm_workers, stats, shutdown_flag,
                                reload_flag, sem, semadj >>]_vars

\* C13 witness: an operation has taken the lock and found the table full
\* or the pid absent, and is about to unlock
C13_Witness ==
    \E p \in Procs :
        /\ op[p].phase = "done"
        /\ ~op[p].res
        /\ \/ op[p].name = "addWorkerProcess"
              /\ Len(shm_workers) = MAX_WORKER_PROCESSES
           \/ op[p].name = "removeWorkerProcess"
              /\ FirstIndex(shm_workers, op[p].pid) = 0

\* C14: every step that reads or writes the process table, the statistics,
\* the shutdown flag or the reload flag is taken by a process that holds a
\* semaphore of the set.
C14_SharedAccessUnderLock ==
    [][/\ \A p \in Procs :
             (HRead(p) \/ HWriteBegin(p) \/ HWriteEnd(p)) => Holding(p)
       /\ (HSetShutdownFlag \/ HSetReloadFlag) => Holding(Master)
       /\ \A w \in Slots : HGetShutdownFlag(w) => Holding(w)]_vars

\* C15: a send on a full queue returns false at once and leaves the queue
\* as it was, and the sending worker stays alive in its main loop, outside
\* any other operation.
C15_SendOnFullQueueIsDropped ==
    [][\A w \in Slots : \A t \in MsgTypes :
          (HSend(w, t) /\ Len(msg_queue) >= QueueCap)
          => /\ ret' = [call |-> "send", ok |-> FALSE, val |-> 0]
             /\ msg_queue' = msg_queue
             /\ procState'[w] = "alive"
             /\ wpc'[w] = "run"
             /\ op'[w] = IdleOp]_vars

\* C15 witness: the queue is full, the last send was refused and every
\* worker is still running
C15_Witness ==
    /\ Len(msg_queue) = QueueCap
    /\ ret.call = "send"
    /\ ~ret.ok
    /\ \A w \in Slots : procState[w] = "alive" /\ wpc[w] = "run"

\* positions of the queued messages a receive with this filter can take
Matching(type) ==
    { i \in 1..Len(msg_queue) : type = ANY \/ msg_queue[i].type = type }

\* C16: a non-blocking receive returns nothing and leaves the queue as it
\* was when no queued message matches the filter; otherwise it returns the
\* oldest matching message (the oldest of all for ANY) and the queue keeps
\* every other message in its order.
C16_ReceiveTakesOldestMatching ==
    [][\A p \in Procs : \A t \in MsgTypes \cup {ANY} :
          HReceive(p, t) =>
            IF Matching(t) = {}
            THEN ~ret'.ok /\ msg_queue' = msg_queue
            ELSE LET i == CHOOSE x \in Matching(t) : \A y \in Matching(t) : x <= y
                 IN  /\ ret' = [call |-> "receive", ok |-> TRUE,
                                val |-> msg_queue[i].id]
                     /\ msg_queue' =
                           [j \in 1..(Len(msg_queue) - 1) |->
                               IF j < i THEN msg_queue[j] ELSE msg_queue[j + 1]]]_vars

\* C16 witness: a receive with a type filter has taken a message from the
\* middle of the queue: an older and a newer message are still queued
C16_Witness ==
    /\ ret.call = "receive"
    /\ ret.ok
    /\ \E i, j \in 1..Len(msg_queue) :
          msg_queue[i].id < ret.val /\ ret.val < msg_queue[j].id

\* C17: no message is returned by more than one receive, and a message
\* that was returned is no longer in the queue.
C17_MessageDeliveredAtMostOnce ==
    /\ \A i \in 1..MaxMsgs : recv_count[i] <= 1
    /\ \A j \in 1..Len(msg_queue) : recv_count[msg_queue[j].id] = 0
    /\ \A j, k \in 1..Len(msg_queue) :
          msg_queue[j].id = msg_queue[k].id => j = k

\* C17 witness: every message that was sent has been received
C17_Witness ==
    /\ msg_seq > MaxMsgs
    /\ \A i \in 1..MaxMsgs : recv_count[i] = 1

\* the shared state as initializeMaster leaves it
FreshSubstrate ==
    /\ initialized_
    /\ ipc_exists
    /\ leftover = {}
    /\ msg_queue = << >>
    /\ shm_workers = << >>
    /\ ~shutdown_flag
    /\ ~reload_flag
    /\ \A s \in SemIndex : sem[s] = 1

C20_OnlyMasterRemovesIpc ==
    [][\A w \in Slots :
          WorkerStep(w)
          => /\ ipc_exists' = ipc_exists
             /\ leftover' = leftover
             /\ Len(msg_queue') >= Len(msg_queue)
             /\ HWorkerExit(w) => ~mgr'[w].shared_data_]_vars

\* C20 witness: a worker has left through exit() and the substrate still
\* exists, with another worker attached to it
C20_Witness ==
    \E w, v \in Slots :
        /\ wpc[w] = "dead"
        /\ ~mgr[w].initialized_
        /\ wpc[v] = "run"
        /\ procState[v] = "alive"
        /\ ipc_exists

\* C21: no counter of the global statistics (messages processed, bytes
\* received, bytes sent, errors) decreases when the master handles a
\* message, whichever worker sent it and whatever its snapshot holds.
C21_GlobalStatisticsNeverDecrease ==
    [][/\ stats'.messages_processed >= stats.messages_processed
       /\ stats'.data_received >= stats.data_received
       /\ stats'.data_sent >= stats.data_sent
       /\ stats'.errors >= stats.errors]_vars

\* the records of the table other than those of pid are the same
OtherRecordsUnchanged(pid) ==
    /\ Len(shm_workers') = Len(shm_workers)
    /\ \A i \in 1..Len(shm_workers) :
          shm_workers[i].pid # pid => shm_workers'[i] = shm_workers[i]

\* C30: handling a Heartbeat changes only last_heartbeat of the sender's
\* record (its status and the other records stay), and handling a
\* StatusUpdate changes only the status of the sender's record.
C30_HandlersChangeOnlyTheirField ==
    [][\A p \in Pids : \A m \in MessagesOf(p) :
          HandleMessage(m)
          => /\ OtherRecordsUnchanged(p)
             /\ m.type = "HEARTBEAT"
                => \A i \in 1..Len(shm_workers) :
                      shm_workers'[i].status = shm_workers[i].status
             /\ m.type = "STATUS_UPDATE"
                => \A i \in 1..Len(shm_workers) :
                      shm_workers'[i].last_heartbeat
                         = shm_workers[i].last_heartbeat]_vars

\* the state that the shutdown protocol reads and writes
ShutdownState ==
    << pc, running_, g_shutdown_requested, shutdown_flag, workers_,
       shm_workers, wait_time, sigterm, killCount, procState, initialized_,
       ipc_exists, msg_queue >>

\* C22: once stop() has run the shutdown protocol, a further stop() call or
\* a further shutdown signal changes no state of the master, sends no
\* signal to a worker and does not start the protocol again.
C22_RequestShutdownIsIdempotent ==
    [][(RequestShutdownAgain \/ StopAgain) => UNCHANGED ShutdownState]_vars

\* C22 witness: the master has exited after a second stop() call and a
\* repeated signal, with the protocol run for tracked workers
C22_Witness ==
    /\ again = {"signal", "stop"}
    /\ pc = "exited"
    /\ shutdown_flag
    /\ \E p \in Pids : procState[p] = "reaped"

\* C28: when the handling of a reload request whose configuration was
\* re-read has completed, the shared reload flag is false again and every
\* tracked live worker has been sent one SIGHUP for the request.
C28_ReloadSignalsWorkersAndClearsFlag ==
    [][Reload(TRUE)
          => /\ ~reload_flag'
             /\ \A p \in TrackedPids(workers_) :
                   procState[p] = "alive" => sighup'[p] = sighup[p] + 1]_vars

\* positions of run() before the initial subscription has succeeded
StartupPcs == {"init", "run", "connect", "subscribe"}

\* C23: a worker has reported RUNNING only if attach, connection and the
\* initial subscription have all succeeded: while run() has not got past
\* subscribeMarketData, no RUNNING status update has been sent.
C23_RunningOnlyAfterSubscribe ==
    "RUNNING" \in reported => w_pc \notin StartupPcs

\* the worker left its main loop on a shutdown trigger and its process is gone
CooperativeExit == w_pc = "exited" /\ left_by # "none"

\* C24: a worker that left its main loop because of the shutdown flag, a
\* Shutdown message or a termination signal has reported STOPPING by the
\* time its process has exited.
C24_StoppingReportedBeforeExit ==
    CooperativeExit => "STOPPING" \in reported

\* C25: when a worker that shut down cooperatively has exited, its business
\* unit is disconnected and no record is left in its buffer that was never
\* handed to the sink.
C25_ShutdownDisconnectsAndFlushes ==
    CooperativeExit
       => /\ conn = "DISCONNECTED"
          /\ \A i \in 1..Len(data_buffers_) : sunk[data_buffers_[i]] >= 1

\* every record of the batch is handed to the sink once more in this step
HandedToSink(batch) ==
    \A i \in 1..Len(batch) : sunk'[batch[i]] = sunk[batch[i]] + 1

\* C26: flushing has two triggers.  Size: whenever the data callback is
\* not running, the buffer holds fewer than batch_size records.  Time: at
\* the main-loop iteration whose now is at least the flush interval after
\* last_flush the periodic flush is entered, and a flush that finds the
\* buffer non-empty hands all its records to the sink.
C26_FlushOnSizeOrInterval ==
    /\ [](t_pc = "idle" => Len(data_buffers_) < batch_size)
    /\ [][(WFlushCheck /\ FlushDue(iter_now, last_flush)) => w_pc' = "fl"]_vars
    /\ [][(WFlushDataBuffers /\ data_buffers_ # << >>) => w_pc' = "fl_save"]_vars
    /\ [][((\E ok \in BOOLEAN : WFlushSave(ok)) /\ data_buffers_ # << >>)
             => HandedToSink(data_buffers_)]_vars

\* C26 witness: the data callback is flushing a full buffer while the main
\* loop is in a periodic flush of a batch below batch_size
C26_Witness ==
    /\ t_pc = "fl_clear"
    /\ Len(t_flush.batch) >= batch_size
    /\ w_pc = "fl_clear"
    /\ flush_ret = "loop"
    /\ m_flush.batch # << >>
    /\ Len(m_flush.batch) < batch_size

\* a thread hands a non-empty buffer to the sink and the sink reports failure
FailedSave ==
    /\ data_buffers_ # << >>
    /\ WFlushSave(FALSE) \/ TFlushSave(FALSE)

\* a thread finishes a flush whose sink call reported failure
ClearAfterFailedSave ==
    \/ WFlushClear /\ ~m_flush.ok
    \/ TFlushClear /\ ~t_flush.ok

\* C27: a flush whose batch save reports failure is not retried: the error
\* counter rises by exactly 1, the bytes-sent counter is unchanged, the
\* thread goes on to clear the buffer without a second sink call, and the
\* clear leaves the buffer empty, so the batch is dropped.
C27_FailedFlushDropsBatch ==
    /\ [][FailedSave
             => /\ statistics_'.errors = statistics_.errors + 1
                /\ statistics_'.data_sent = statistics_.data_sent
                /\ HandedToSink(data_buffers_)
                /\ WFlushSave(FALSE) => w_pc' = "fl_clear"
                /\ TFlushSave(FALSE) => t_pc' = "fl_clear"]_vars
    /\ [][ClearAfterFailedSave
             => /\ data_buffers_' = << >>
                /\ UNCHANGED << sunk, statistics_ >>
                /\ WFlushClear => w_pc' \in {"fl_done", "cleanup"}
                /\ TFlushClear => t_pc' = "idle"]_vars

\* C27 witness: a periodic flush has completed whose only sink call failed:
\* a record was handed over once, nothing counts as sent, one error counted
C27_Witness ==
    /\ w_pc = "fl_done"
    /\ data_buffers_ = << >>
    /\ statistics_.errors = 1
    /\ statistics_.data_sent = 0
    /\ \E r \in 1..MaxRecords : sunk[r] = 1
    /\ \A r \in 1..MaxRecords : sunk[r] <= 1

\* mainLoop finds the business unit not connected and calls handleReconnection
ReconnectionAttempt ==
    /\ conn # "CONNECTED"
    /\ \E ok \in BOOLEAN : WCheckConnection(ok)

\* C29: a reconnection is attempted only while fewer than
\* max_reconnect_attempts consecutive attempts have failed; after that many
\* failures the worker stops retrying.
C29_ReconnectionIsBounded ==
    [][ReconnectionAttempt => reconnect_failures < max_reconnect_attempts]_vars

\* C31: the liveness sweep signals a pid only if its record is in status
\* RUNNING with a heartbeat older than HEARTBEAT_TIMEOUT; a record in
\* another status or with a recent heartbeat is not signalled.
C31_SweepSignalsOnlyRunning ==
    [][(MonitorWorkerProcesses /\ ~shutdown_flag)
          => \A p \in sigterm' \ sigterm :
                \E i \in 1..Len(shm_workers) :
                    /\ shm_workers[i].pid = p
                    /\ shm_workers[i].status = "RUNNING"
                    /\ Stale(shm_workers[i])]_vars

\* what the master tracks and what the table holds right after a spawn of
\* WorkerCount workers in which every fork() succeeded
InitialSpawnState ==
    /\ DOMAIN workers_ = Slots
    /\ \A v, w \in Slots : v # w => workers_[v].pid # workers_[w].pid
    /\ \A w \in Slots : workers_[w].restart_count = 0
    /\ Len(shm_workers) = WorkerCount
    /\ \A w \in Slots :
          Cardinality({ i \in 1..Len(shm_workers) :
                           shm_workers[i].worker_id = w }) = 1
    /\ \A i \in 1..Len(shm_workers) :
          /\ shm_workers[i].status = "STARTING"
          /\ shm_workers[i].pid = workers_[shm_workers[i].worker_id].pid

HandshakePcs == MainLoopPcs \cup {"gs_wait", "gs_reap", "gs_clr_child"}

\* C33: no child exit is lost by the handshake: while the master relies on
\* g_child_exited, every exited child that is not yet reaped is either
\* announced by the flag or about to be found by the waitpid loop of the
\* running reap pass.
C33_NoChildExitIsLost ==
    \A p \in Pids :
        (pc \in HandshakePcs /\ procState[p] = "zombie")
        => (g_child_exited = 1 \/ pc \in ReapPcs)

\* one iteration of the loop of WorkerProcess::processIPCMessages:
\* receiveMessage(message, MessageType::ANY, false)
WorkerDrains(w) == HReceive(w, ANY)

\* the message types a worker handles
ControlTypes == {"SHUTDOWN", "RELOAD"}

\* C34: a worker's message drain removes only Shutdown and Reload messages
\* from the shared queue; a heartbeat, status, error or statistics message
\* sent for the master is never dequeued by a worker.
C34_WorkerDrainTakesOnlyControl ==
    [][\A w \in Slots :
          (WorkerDrains(w) /\ msg_queue' # msg_queue)
          => Head(msg_queue).type \in ControlTypes]_vars

\* positions of the worker's main thread inside mainLoop
WorkerLoopPcs ==
    {"loop", "msgs", "flush", "fl", "fl_save", "fl_clear", "fl_done", "conn"}

\* the records passed to onMarketData so far
Delivered == 1..(next_rec - 1)

\* the record is in the buffer
Buffered(r) == \E i \in 1..Len(data_buffers_) : data_buffers_[i] = r

\* C35: while the worker is in its main loop, every record passed to
\* onMarketData is still in the buffer or was handed to the sink, and no
\* record was handed to the sink in more than one batch.
C35_NoRecordLostOrDuplicated ==
    (w_pc \in WorkerLoopPcs /\ flush_ret = "loop")
    => \A r \in Delivered :
          /\ Buffered(r) \/ sunk[r] >= 1
          /\ sunk[r] <= 1

\* C36: handling a heartbeat or status message whose sender pid is not in
\* the process table leaves every record unchanged: a message of an
\* earlier incarnation of a slot neither refreshes the heartbeat nor
\* changes the status of the replacement.
C36_StalePidChangesNoRecord ==
    [][\A p \in Pids : \A m \in MessagesOf(p) :
          (HandleMessage(m) /\ p \notin TablePids(shm_workers))
          => shm_workers' = shm_workers]_vars

\* C36 witness: the last message handled came from a pid without a record,
\* the lookup failed, and although the clock has advanced no record shows
\* a heartbeat
C36_Witness ==
    /\ ret.call = "updateWorkerStatus"
    /\ ~ret.ok
    /\ ret.val \notin TablePids(shm_workers)
    /\ now > 0
    /\ \A i \in 1..Len(shm_workers) : shm_workers[i].last_heartbeat = 0

\* C37: the shared shutdown flag is monotonic: once it is true no step
\* sets it back to false while the substrate exists, and an attached
\* worker that reads it after it was set sees true.
C37_ShutdownFlagIsMonotonic ==
    /\ [][(shutdown_flag /\ ipc_exists') => shutdown_flag']_vars
    /\ [][\A w \in Slots :
             (HGetShutdownFlag(w) /\ shutdown_flag) => ret'.ok]_vars

\* C37 witness: the flag is set and the last call, a worker's read of the
\* flag, has returned true
C37_Witness ==
    /\ shutdown_flag
    /\ ipc_exists
    /\ ret.call = "flag"
    /\ ret.ok

\* C38: the record count of the process table stays within
\* 0 .. MAX_WORKER_PROCESSES: addWorkerProcess on a full table returns false
\* and leaves the array and the count as they were, and removeWorkerProcess
\* never takes the count below 0.
C38_CountStaysInRange ==
    /\ [](tbl_count >= 0 /\ tbl_count <= MAX_WORKER_PROCESSES)
    /\ [][\A pid \in Slots, locked \in BOOLEAN :
            (TAdd(pid, 100 + tbl_ops, locked)
                /\ tbl_count = MAX_WORKER_PROCESSES)
            => /\ ~tbl_ret'.ok
               /\ tbl_workers' = tbl_workers
               /\ tbl_count' = tbl_count]_vars
    /\ [][\A pid \in RemovedPids, locked \in BOOLEAN :
            TRemove(pid, locked) => tbl_count' >= 0]_vars

\* an add was refused by a full table
C38_Witness ==
    /\ tbl_ret.call = "add"
    /\ tbl_ret.locked
    /\ ~tbl_ret.ok
    /\ tbl_count = MAX_WORKER_PROCESSES

\* C39: removeWorkerProcess(pid), when it holds the lock, removes exactly the
\* first record whose pid matches: the records before it and behind it are
\* unchanged and keep their order, the count drops by 1 and the call returns
\* true; when no record has that pid the call returns false and leaves the
\* array and the count as they were.
C39_RemoveTakesFirstMatch ==
    [][\A pid \in RemovedPids :
        TRemove(pid, TRUE) =>
            LET old == Records(tbl_workers, tbl_count)
                new == Records(tbl_workers', tbl_count')
                i   == FirstIndex(old, pid)
            IN  IF i = 0
                THEN /\ ~tbl_ret'.ok
                     /\ tbl_workers' = tbl_workers
                     /\ tbl_count' = tbl_count
                ELSE /\ tbl_ret'.ok
                     /\ tbl_count' = tbl_count - 1
                     /\ new = SubSeq(old, 1, i - 1) \o SubSeq(old, i + 1, Len(old))]_vars

\* a record was removed from the middle of a table that holds the pid twice
C39_Witness ==
    /\ tbl_ret.call = "remove"
    /\ tbl_ret.ok
    /\ tbl_count >= 2
    /\ tbl_workers[1].pid # tbl_ret.pid
    /\ \E i \in 2..tbl_count : tbl_workers[i].pid = tbl_ret.pid

====
